---- MODULE Spec2Model ----
(***************************************************************************)
(* Verification model of the hound investigation scheduler                 *)
(* (commands/agent.py: AgentRunner), its steering channel and the Plan     *)
(* Store it drives, and of the usage accountant (llm/token_tracker.py,     *)
(* llm/pricing.py).                                                        *)
(*                                                                         *)
(* Texts (goals, steering directives) are sequences of word tokens; the    *)
(* substring tests of the source become contiguous-token tests.  The empty *)
(* sequence stands for Python's None / empty string (both are falsy).      *)
(***************************************************************************)
EXTENDS Integers, Sequences, FiniteSets, TLC

VARIABLES
    pc,                 \* position of the control loop of AgentRunner.run
    store,              \* Plan Store: frame records in insertion order (durable)
    log,                \* steering.jsonl: appended entries in file order (durable)
    cursor,             \* steering.cursor: last consumed timestamp (durable)
    limit,              \* self.time_limit_minutes (0: not set)
    elapsed,            \* time.time() - start_overall, in minutes
    items,              \* the batch returned by _plan_investigations
    idx,                \* 1-based position in items of the frame at hand
    inv,                \* the frame about to run / running (after any override)
    executed_frames,    \* set of frame ids executed in this batch
    completed,          \* self.completed_investigations
    last_applied_steer, \* self._last_applied_steer
    last_replan_steer,  \* self._last_replan_steer
    abort_requested,    \* self.agent._abort_requested
    time_up,            \* local time_up of run()
    attempt,            \* 0: worker not in flight; 1: first call; 2: the retry
    final_status,       \* status handed to session_tracker.finalize
    restarts,           \* number of process restarts so far
    trace,              \* history: what was issued for the frame at hand
    applied,            \* history: steering entries applied, in order
    call                \* history: the calls made on a collaborator (the planner
                        \* in the last planning cycle; the steering cursor or
                        \* the plan store when driven on their own)

\* llm/token_tracker.py: TokenTracker, and llm/pricing.py: PricingCalculator
VARIABLES
    usage_history,      \* TokenTracker.usage_history
    usage_by_model,     \* TokenTracker.usage_by_model: model_key -> aggregates
    cumulative_tokens,  \* TokenTracker._cumulative_tokens: model_key -> counters
    lock,               \* TokenTracker._lock: 0 free, else the thread holding it
    output_file,        \* TokenTracker._output_file is set
    pricing_cache,      \* PricingCalculator._pricing_cache
    threads,            \* per calling thread: its position and its locals
    resets              \* number of reset() calls so far

vars == <<pc, store, log, cursor, limit, elapsed, items, idx, inv,
          executed_frames, completed, last_applied_steer, last_replan_steer,
          abort_requested, time_up, attempt, final_status, restarts, trace,
          applied, call, usage_history, usage_by_model, cumulative_tokens,
          lock, output_file, pricing_cache, threads, resets>>

tracker_vars == <<usage_history, usage_by_model, cumulative_tokens, lock,
                  output_file, pricing_cache, threads, resets>>

sched_vars == <<pc, store, log, cursor, limit, elapsed, items, idx, inv,
                executed_frames, completed, last_applied_steer,
                last_replan_steer, abort_requested, time_up, attempt,
                final_status, restarts, trace, applied, call>>

\* ------------------------------------------------------------------ bounds
MaxLog == 2         \* steering entries ever appended
MaxTs == 2          \* timestamps of steering entries: 1..MaxTs
MaxLimit == 1       \* the time limit when one is set (0: none)
MaxElapsed == 1     \* the clock stops advancing here
MaxRestarts == 1    \* process restarts
MaxPlanned == 2     \* candidates in one planner response
PlanN == 2          \* plan_n given to run()

\* ------------------------------------------------------------------ texts
None == <<>>

Max(a, b) == IF a >= b THEN a ELSE b
Min(a, b) == IF a <= b THEN a ELSE b

\* str.lower() on one token
LowerTok(w) ==
    CASE w = "Review" -> "review"
      [] w = "Check" -> "check"
      [] w = "Whole" -> "whole"
      [] OTHER -> w

Lower(text) == [i \in 1..Len(text) |-> LowerTok(text[i])]

\* `k in low`: the phrase occurs as a contiguous run of tokens
Contains(text, phrase) ==
    \E i \in 1..(Len(text) - Len(phrase) + 1) :
        SubSeq(text, i, i + Len(phrase) - 1) = phrase

verbs ==
    { <<"investigate">>, <<"investtgate">>, <<"check">>, <<"look", "at">>,
      <<"look", "into">>, <<"focus", "on">>, <<"analyze">>, <<"audit">>,
      <<"review">>, <<"examine">>, <<"scan">>, <<"probe">>, <<"dig", "into">>,
      <<"right", "now">>, <<"next">>, <<"please", "investigate">>,
      <<"please", "check">> }

globals ==
    { <<"whole", "app">>, <<"entire", "app">>, <<"entire", "codebase">>,
      <<"whole", "codebase">>, <<"all", "contracts">>, <<"every", "contract">>,
      <<"system-wide">>, <<"system", "wide">>, <<"project-wide">>,
      <<"project", "wide">>, <<"across", "the", "codebase">>,
      <<"across", "the", "repo">>, <<"across", "modules">>, <<"end-to-end">>,
      <<"e2e">>, <<"globally">>, <<"everywhere">>, <<"full", "audit">>,
      <<"full", "review">>, <<"scan", "the", "entire">>, <<"scan", "all">> }

\* the tuple of _is_global_steer
global_markers ==
    { <<"whole", "app">>, <<"entire", "app">>, <<"entire", "codebase">>,
      <<"whole", "codebase">>, <<"all", "contracts">>, <<"every", "contract">>,
      <<"system-wide">>, <<"system", "wide">>, <<"project-wide">>,
      <<"project", "wide">>, <<"across", "the", "codebase">>,
      <<"across", "the", "repo">>, <<"across", "modules">>, <<"end-to-end">>,
      <<"e2e">>, <<"globally">>, <<"everywhere">>, <<"full", "audit">>,
      <<"full", "review">>, <<"scan", "the", "entire">>, <<"scan", "all">> }

\* the test of _find_latest_urgent_steer on one entry's text
IsUrgent(text) ==
    LET low == Lower(text)
    IN  (\E k \in verbs : Contains(low, k)) \/ (\E k \in globals : Contains(low, k))

\* variant: the "across" rule is left out
is_global_steer_MarkersOnly(text) == \E m \in global_markers : Contains(Lower(text), m)

\* run()._is_global_steer
is_global_steer(text) ==
    LET t == Lower(text)
    IN  IF t = None THEN FALSE
        ELSE \/ \E m \in global_markers : Contains(t, m)
             \* ' across ' in t or t.startswith('across ')
             \/ \E i \in 1..(Len(t) - 1) : t[i] = "across"

\* steering directives an operator may write
TTarget == <<"Check", "login">>
TGlobal == <<"whole", "codebase">>
TNoise == <<"thanks">>
Texts == {TTarget, TGlobal, TNoise}
\* the directives written while the scheduler runs (a text that is not
\* actionable is never found, like an entry without a timestamp)
SteerTexts == {TTarget, TGlobal}

\* goals the strategist may propose
GAuth == <<"review", "auth">>
GAuthCap == <<"Review", "auth">>
GLogin == <<"Check", "login">>
UrgentTexts == { t \in Texts : IsUrgent(t) }
GlobalTexts == { t \in Texts : is_global_steer(t) }

\* ------------------------------------------------------- steering channel
SteerReadLimit == 80    \* _read_steering_entries(limit=80)

LastN(seq, n) == SubSeq(seq, Max(1, Len(seq) - n + 1), Len(seq))

\* a line of steering.jsonl that json.loads rejects (malformed, or written in
\* part so far) carries its characters in `raw`; any other line is a JSON
\* object with ts and text
IsRawLine(ln) == "raw" \in DOMAIN ln

\* variant: a line that does not parse is dropped
KeptLine_SkipRaw(ln) == ~IsRawLine(ln) /\ ln.text # None

\* the lines that yield an entry: a parsed one with a non-empty text, and any
\* that does not parse (the `except` branch: "fallback for raw lines")
KeptLine(ln) == IsRawLine(ln) \/ ln.text # None

ParseLine(ln) ==
    IF IsRawLine(ln)
    THEN [ts |-> 0, text |-> ln.raw]
    ELSE [ts |-> ln.ts, text |-> ln.text]

\* _read_steering_entries: the entries of the lines kept, last `lim` of them
read_steering_entries(lg, lim) ==
    LET kept == SelectSeq(lg, KeptLine)
    IN  LastN([i \in 1..Len(kept) |-> ParseLine(kept[i])], lim)

\* variant: the cursor is not consulted
find_latest_urgent_steer_IgnoreCursor(lg, last_ts) ==
    LET hits == { i \in 1..Len(lg) : lg[i].text \in UrgentTexts }
    IN  IF hits = {} THEN 0 ELSE CHOOSE i \in hits : \A j \in hits : j <= i

\* _find_latest_urgent_steer: position in the log of the entry nearest the end
\* with ts > cursor and an actionable text; 0 when there is none.  (The log
\* holds no empty texts, so positions in the read window are log positions.)
find_latest_urgent_steer(lg, last_ts) ==
    LET off == Len(lg) - Len(read_steering_entries(lg, SteerReadLimit))
        hits == { i \in (off + 1)..Len(lg) : ~(lg[i].ts <= last_ts) /\ lg[i].text \in UrgentTexts }
    IN  IF hits = {} THEN 0 ELSE CHOOSE i \in hits : \A j \in hits : j <= i

NoEntry == [found |-> FALSE, ts |-> 0, text |-> None]

\* variant: the scan stops at the oldest match
find_latest_urgent_Oldest(lg, last_ts) ==
    LET entries == read_steering_entries(lg, SteerReadLimit)
        hits == { i \in 1..Len(entries) :
                    ~(entries[i].ts <= last_ts) /\ IsUrgent(entries[i].text) }
    IN  IF hits = {} THEN NoEntry
        ELSE LET i == CHOOSE x \in hits : \A y \in hits : x <= y
             IN  [found |-> TRUE, ts |-> entries[i].ts, text |-> entries[i].text]

\* _find_latest_urgent_steer as the entry it returns ({ts, text} or None)
find_latest_urgent(lg, last_ts) ==
    LET entries == read_steering_entries(lg, SteerReadLimit)
        hits == { i \in 1..Len(entries) :
                    ~(entries[i].ts <= last_ts) /\ IsUrgent(entries[i].text) }
    IN  IF hits = {} THEN NoEntry
        ELSE LET i == CHOOSE x \in hits : \A y \in hits : y <= x
             IN  [found |-> TRUE, ts |-> entries[i].ts, text |-> entries[i].text]

\* variant: the cursor file is never written
consume_steer_Dropped(cur, ts) == cur

\* variant: the cursor file is written without comparing
consume_steer_Unconditional(cur, ts) == ts

\* _consume_steer: the value of the cursor file afterwards
consume_steer(cur, ts) == IF ts # 0 /\ ts > cur THEN ts ELSE cur

\* ------------------------------------------------------------ plan store
Statuses == {"planned", "in_progress", "done", "dropped"}

Normalize(question) == Lower(question)
FrameId(question) == Normalize(question)

FrameIds(st) == { st[i].frame_id : i \in 1..Len(st) }
HasFrame(st, fid) == fid \in FrameIds(st)
FramePos(st, fid) == CHOOSE i \in 1..Len(st) : st[i].frame_id = fid

ps_get(st, fid) == IF HasFrame(st, fid) THEN st[FramePos(st, fid)] ELSE [status |-> "planned"]
StatusOf(st, fid) == st[FramePos(st, fid)].status

\* variant: a second propose of the same question overwrites the priority
ps_propose_Overwrite(st, question, priority) ==
    LET fid == FrameId(question)
    IN  IF HasFrame(st, fid)
        THEN [store |-> [st EXCEPT ![FramePos(st, fid)].priority = priority],
              created |-> FALSE, frame_id |-> fid]
        ELSE [store |-> Append(st, [frame_id |-> fid, question |-> question,
                                    priority |-> priority, status |-> "planned"]),
              created |-> TRUE, frame_id |-> fid]

ps_propose(st, question, priority) ==
    LET fid == FrameId(question)
    IN  IF HasFrame(st, fid)
        THEN [store |-> st, created |-> FALSE, frame_id |-> fid]
        ELSE [store |-> Append(st, [frame_id |-> fid, question |-> question,
                                    priority |-> priority, status |-> "planned"]),
              created |-> TRUE, frame_id |-> fid]

\* variant: among equal priorities the newest frame comes first
RECURSIVE SortByPriority_Unstable(_)
SortByPriority_Unstable(fs) ==
    IF fs = <<>> THEN <<>>
    ELSE LET top == CHOOSE i \in 1..Len(fs) :
                        /\ \A j \in 1..Len(fs) : fs[j].priority <= fs[i].priority
                        /\ \A j \in (i + 1)..Len(fs) : fs[j].priority < fs[i].priority
             rest == [k \in 1..(Len(fs) - 1) |-> IF k < top THEN fs[k] ELSE fs[k + 1]]
         IN  <<fs[top]>> \o SortByPriority_Unstable(rest)

RECURSIVE SortByPriority(_)
SortByPriority(fs) ==
    IF fs = <<>> THEN <<>>
    ELSE LET top == CHOOSE i \in 1..Len(fs) :
                        /\ \A j \in 1..Len(fs) : fs[j].priority <= fs[i].priority
                        /\ \A j \in 1..(i - 1) : fs[j].priority < fs[i].priority
             rest == [k \in 1..(Len(fs) - 1) |-> IF k < top THEN fs[k] ELSE fs[k + 1]]
         IN  <<fs[top]>> \o SortByPriority(rest)

ps_list(st, status) == SortByPriority(SelectSeq(st, LAMBDA f : f.status = status))

\* variant: a finished frame may be planned again
ValidTransition_Reopen(from, to) ==
    \/ from = "planned" /\ to \in {"in_progress", "dropped"}
    \/ from = "in_progress" /\ to \in {"done", "dropped", "planned"}
    \/ from = "done" /\ to = "planned"

ValidTransition(from, to) ==
    \/ from = "planned" /\ to \in {"in_progress", "dropped"}
    \/ from = "in_progress" /\ to \in {"done", "dropped", "planned"}

\* the success/failure answer of update_status
ps_update_ok(st, fid, new) == HasFrame(st, fid) /\ ValidTransition(StatusOf(st, fid), new)

ps_update_status(st, fid, new) ==
    IF HasFrame(st, fid) /\ ValidTransition(StatusOf(st, fid), new)
    THEN [st EXCEPT ![FramePos(st, fid)].status = new]
    ELSE st

\* ------------------------------------------------- _plan_investigations
Item(goal, priority, fid) == [goal |-> goal, priority |-> priority, frame_id |-> fid]

Candidates == { [goal |-> GAuth, priority |-> 5], [goal |-> GLogin, priority |-> 8] }

RECURSIVE SeqsUpTo(_, _)
SeqsUpTo(S, n) ==
    IF n = 0 THEN {<<>>}
    ELSE LET shorter == SeqsUpTo(S, n - 1)
         IN  shorter \cup { Append(q, x) : q \in { r \in shorter : Len(r) = n - 1 }, x \in S }

PlannerResponses == SeqsUpTo(Candidates, MaxPlanned)

\* variant: the steering frame is queued but the directive is not consumed
PlanSteering_NoConsume(lg, cur) ==
    LET i == find_latest_urgent_steer(lg, cur)
    IN  IF i = 0
        THEN [prepared |-> <<>>, cursor |-> cur, used |-> 0]
        ELSE [prepared |-> <<Item(lg[i].text, 10, None)>>, cursor |-> cur, used |-> i]

\* step 0: an unconsumed urgent directive becomes the first, priority-10 frame
PlanSteering(lg, cur) ==
    LET i == find_latest_urgent_steer(lg, cur)
    IN  IF i = 0
        THEN [prepared |-> <<>>, cursor |-> cur, used |-> 0]
        ELSE [prepared |-> <<Item(lg[i].text, 10, None)>>,
              cursor |-> consume_steer(cur, lg[i].ts), used |-> i]

\* variant: only the best PLANNED frame is carried over
PlanPending_OnlyFirst(st, n) ==
    LET pending == ps_list(st, "planned")
        taken == SubSeq(pending, 1, Min(1, Len(pending)))
    IN  [k \in 1..Len(taken) |-> Item(taken[k].question, taken[k].priority, taken[k].frame_id)]

\* step 1: the first n PLANNED frames of the session, in the store's order
PlanPending(st, n) ==
    LET pending == ps_list(st, "planned")
        taken == SubSeq(pending, 1, Min(n, Len(pending)))
    IN  [k \in 1..Len(taken) |-> Item(taken[k].question, taken[k].priority, taken[k].frame_id)]

\* variant: a DONE frame is not recognised as already handled
SkipExisting_NoDone(status, fid, existing_frame_ids) ==
    \/ status = "in_progress"
    \/ status = "planned" /\ fid \in existing_frame_ids

\* variant: a frame that is IN_PROGRESS is not recognised as already running
SkipExisting_NoInProgress(status, fid, existing_frame_ids) ==
    \/ status = "done"
    \/ status = "planned" /\ fid \in existing_frame_ids

\* variant: a PLANNED frame already in the batch is not recognised
SkipExisting_NoBatchCheck(status, fid, existing_frame_ids) ==
    status \in {"done", "in_progress"}

\* the decision on a candidate that propose reports as existing
SkipExisting(status, fid, existing_frame_ids) ==
    \/ status \in {"done", "in_progress"}
    \/ status = "planned" /\ fid \in existing_frame_ids

\* variant: every candidate of the response is taken, the batch size ignored
RECURSIVE AddPlanned_NoCap(_, _, _, _, _)
AddPlanned_NoCap(planned, prepared, st, existing_frame_ids, n) ==
    IF planned = <<>>
    THEN [items |-> prepared, store |-> st]
    ELSE LET d == Head(planned)
             r == ps_propose(st, d.goal, d.priority)
             fid == r.frame_id
             skip == /\ ~r.created
                     /\ SkipExisting(ps_get(r.store, fid).status, fid, existing_frame_ids)
         IN  IF skip
             THEN AddPlanned_NoCap(Tail(planned), prepared, r.store, existing_frame_ids, n)
             ELSE AddPlanned_NoCap(Tail(planned),
                                   Append(prepared, Item(d.goal, d.priority, fid)),
                                   r.store,
                                   IF fid # None THEN existing_frame_ids \cup {fid}
                                                 ELSE existing_frame_ids,
                                   n)

\* step 3: the loop over the strategist's candidates
RECURSIVE AddPlanned(_, _, _, _, _)
AddPlanned(planned, prepared, st, existing_frame_ids, n) ==
    IF planned = <<>> \/ Len(prepared) >= n
    THEN [items |-> prepared, store |-> st]
    ELSE LET d == Head(planned)
             r == ps_propose(st, d.goal, d.priority)
             fid == r.frame_id
             skip == /\ ~r.created
                     /\ SkipExisting(ps_get(r.store, fid).status, fid, existing_frame_ids)
         IN  IF skip
             THEN AddPlanned(Tail(planned), prepared, r.store, existing_frame_ids, n)
             ELSE AddPlanned(Tail(planned), Append(prepared, Item(d.goal, d.priority, fid)),
                             r.store,
                             IF fid # None THEN existing_frame_ids \cup {fid}
                                           ELSE existing_frame_ids,
                             n)

\* variant: the early return hands back everything prepared, not prepared[:n]
plan_investigations_NoSlice(n, response, lg, cur, st) ==
    LET s0 == PlanSteering(lg, cur)
        pend == PlanPending(st, n)
        prepared == s0.prepared \o pend
        existing == { pend[k].frame_id : k \in 1..Len(pend) } \ {None}
        need == Max(0, n - Len(prepared))
        planned == IF need > 0 THEN response ELSE <<>>
        r == AddPlanned(planned, prepared, st, existing, n)
    IN  IF Len(prepared) >= n
        THEN [items |-> prepared, store |-> st, cursor |-> s0.cursor,
              used |-> s0.used, need |-> 0]
        ELSE [items |-> r.items, store |-> r.store, cursor |-> s0.cursor,
              used |-> s0.used, need |-> need]

\* _plan_investigations(n), given what the strategist answers when asked
plan_investigations(n, response, lg, cur, st) ==
    LET s0 == PlanSteering(lg, cur)
        pend == PlanPending(st, n)
        prepared == s0.prepared \o pend
        existing == { pend[k].frame_id : k \in 1..Len(pend) } \ {None}
        need == Max(0, n - Len(prepared))
        planned == IF need > 0 THEN response ELSE <<>>
        r == AddPlanned(planned, prepared, st, existing, n)
    IN  IF Len(prepared) >= n
        THEN [items |-> SubSeq(prepared, 1, n), store |-> st, cursor |-> s0.cursor,
              used |-> s0.used, need |-> 0]
        ELSE [items |-> r.items, store |-> r.store, cursor |-> s0.cursor,
              used |-> s0.used, need |-> need]

\* ------------------------------------------------------------------ pricing
\* llm/pricing.py.  A model key "provider:model" is the pair <<provider, model>>.
\* Costs are kept exact, in millionths of a dollar, where the source computes
\* (tokens / unit) * rate in floating point.
MicroPerDollar == 1000000
DefaultUnit == 1000000      \* pricing.get("unit", 1_000_000)

\* dict.get(field, default)
Get(r, field, default) == IF field \in DOMAIN r THEN r[field] ELSE default

\* d[k] = v on a dict
Put(d, k, v) == [x \in DOMAIN d \cup {k} |-> IF x = k THEN v ELSE d[x]]

NoModels == [k \in {} |-> 0]

model_key(provider, model) == <<provider, model>>

\* str.lower() on the provider names in use
str_lower(p) == IF p = "Mock" THEN "mock" ELSE IF p = "OpenAI" THEN "openai" ELSE p

PROVIDER_NAME_MAP ==
    [p \in {"openai", "anthropic", "gemini", "xai", "deepseek", "mock"} |->
       CASE p = "openai" -> "OpenAI"
         [] p = "anthropic" -> "Anthropic"
         [] p = "gemini" -> "Gemini"
         [] p = "xai" -> "XAI"
         [] p = "deepseek" -> "DeepSeek"
         [] p = "mock" -> "Mock"]

\* (tokens / unit) * rate
Cost(tokens, unit, rate) == tokens * rate * (MicroPerDollar \div unit)

\* variant: the sort of the tiers is left out
SortTiers_Unsorted(tiers) == tiers

\* tiers.sort(key=threshold): stable, ascending
RECURSIVE InsertTier(_, _)
InsertTier(sorted, t) ==
    IF sorted = <<>> THEN <<t>>
    ELSE IF sorted[Len(sorted)].threshold <= t.threshold
    THEN Append(sorted, t)
    ELSE Append(InsertTier(SubSeq(sorted, 1, Len(sorted) - 1), t), sorted[Len(sorted)])

RECURSIVE SortFrom(_, _, _)
SortFrom(tiers, i, sorted) ==
    IF i > Len(tiers) THEN sorted
    ELSE SortFrom(tiers, i + 1, InsertTier(sorted, tiers[i]))

SortTiers(tiers) == SortFrom(tiers, 1, <<>>)

ParseTier(tier) ==
    [threshold |-> Get(tier, "threshold", 0),
     input_cost |-> Get(tier, "input_cost", 0),
     output_cost |-> Get(tier, "output_cost", 0)]

\* _load_pricing over config["models"], given in dict order
RECURSIVE load_pricing(_, _, _)
load_pricing(models, i, cache) ==
    IF i > Len(models) THEN cache
    ELSE LET model_cfg == models[i]
             provider == str_lower(Get(model_cfg, "provider", "openai"))
             key == model_key(PROVIDER_NAME_MAP[provider], Get(model_cfg, "model", ""))
         IN  IF "pricing" \notin DOMAIN model_cfg
             THEN load_pricing(models, i + 1, cache)
             ELSE LET pricing == model_cfg.pricing
                      unit == Get(pricing, "unit", DefaultUnit)
                  IN  IF "tiers" \in DOMAIN pricing
                      THEN load_pricing(models, i + 1, Put(cache, key,
                             [type |-> "tiered", unit |-> unit,
                              tiers |-> SortTiers([k \in 1..Len(pricing.tiers) |->
                                                     ParseTier(pricing.tiers[k])])]))
                      ELSE load_pricing(models, i + 1, Put(cache, key,
                             [type |-> "simple", unit |-> unit,
                              input_cost |-> Get(pricing, "input_cost", 0),
                              output_cost |-> Get(pricing, "output_cost", 0)]))

\* variant: every call starts in the first tier, whatever was used before
StartTier_First(tiers, i, current_cumulative, current_tier_idx) == 1

\* "Find which tier we're starting in": the for loop with its break
RECURSIVE StartTier(_, _, _, _)
StartTier(tiers, i, current_cumulative, current_tier_idx) ==
    IF i > Len(tiers) THEN current_tier_idx
    ELSE IF current_cumulative >= tiers[i].threshold
    THEN StartTier(tiers, i + 1, current_cumulative, i)
    ELSE current_tier_idx

\* variant: every token of the call is charged at the rate of the tier the call starts in
TierLoop_NoSplit(tiers, unit, cost_type, tokens_remaining, current_cumulative, current_tier_idx, total_cost) ==
    [total_cost |-> Cost(tokens_remaining, unit, tiers[current_tier_idx][cost_type]),
     tokens_remaining |-> 0, current_tier_idx |-> current_tier_idx + 1]

\* variant: the last tier is charged like the others, up to a next threshold
\* that does not exist, so it takes nothing
TierLoop_LastTakesNone(tiers, unit, cost_type, tokens_remaining, current_cumulative, current_tier_idx, total_cost) ==
    [total_cost |-> total_cost, tokens_remaining |-> tokens_remaining,
     current_tier_idx |-> Len(tiers) + 1]

\* the while loop of _calculate_tiered_cost (tiers are 1-based here): the
\* values of its variables when it is left
RECURSIVE TierLoop(_, _, _, _, _, _, _)
TierLoop(tiers, unit, cost_type, tokens_remaining, current_cumulative, current_tier_idx, total_cost) ==
    IF ~(tokens_remaining > 0 /\ current_tier_idx <= Len(tiers))
    THEN [total_cost |-> total_cost, tokens_remaining |-> tokens_remaining,
          current_tier_idx |-> current_tier_idx]
    ELSE LET rate == tiers[current_tier_idx][cost_type]
             tokens_until_next_tier == tiers[current_tier_idx + 1].threshold - current_cumulative
             tokens_at_this_rate ==
                 IF current_tier_idx + 1 <= Len(tiers)
                 THEN Min(tokens_remaining, tokens_until_next_tier)
                 ELSE tokens_remaining
         IN  TierLoop(tiers, unit, cost_type,
                      tokens_remaining - tokens_at_this_rate,
                      current_cumulative + tokens_at_this_rate,
                      current_tier_idx + 1,
                      total_cost + Cost(tokens_at_this_rate, unit, rate))

\* _calculate_tiered_cost with the loop variables it ends on
tiered_cost_run(tokens, cumulative_tokens_, tiers, unit, cost_type) ==
    IF tokens = 0 \/ tiers = <<>>
    THEN [total_cost |-> 0, tokens_remaining |-> tokens, current_tier_idx |-> 1]
    ELSE TierLoop(tiers, unit, cost_type, tokens, cumulative_tokens_,
                  StartTier(tiers, 1, cumulative_tokens_, 1), 0)

calculate_tiered_cost(tokens, cumulative_tokens_, tiers, unit, cost_type) ==
    tiered_cost_run(tokens, cumulative_tokens_, tiers, unit, cost_type).total_cost

\* calculate_cost: (input_cost, output_cost, total_cost)
calculate_cost(cache, key, input_tokens, output_tokens, cumulative_input_tokens, cumulative_output_tokens) ==
    IF key \notin DOMAIN cache
    THEN <<0, 0, 0>>
    ELSE LET pricing == cache[key]
             unit == pricing.unit
         IN  IF pricing.type = "simple"
             THEN LET ic == Cost(input_tokens, unit, pricing.input_cost)
                      oc == Cost(output_tokens, unit, pricing.output_cost)
                  IN  <<ic, oc, ic + oc>>
             ELSE LET ic == calculate_tiered_cost(input_tokens, cumulative_input_tokens,
                                                  pricing.tiers, unit, "input_cost")
                      oc == calculate_tiered_cost(output_tokens, cumulative_output_tokens,
                                                  pricing.tiers, unit, "output_cost")
                  IN  <<ic, oc, ic + oc>>

\* ------------------------------------------------------------ token tracker
\* llm/token_tracker.py
Threads == {1, 2}

IdleThread ==
    [pc |-> "idle", provider |-> "", model |-> "", input_tokens |-> 0,
     output_tokens |-> 0, cumulative |-> <<0, 0>>, cost |-> <<0, 0, 0>>]

\* the tracker and the calculator are not in use
TrackerIdle ==
    /\ usage_history = <<>>
    /\ usage_by_model = NoModels
    /\ cumulative_tokens = NoModels
    /\ lock = 0
    /\ output_file = FALSE
    /\ pricing_cache = NoModels
    /\ threads = [t \in Threads |-> IdleThread]
    /\ resets = 0

TokenUsage(provider, model, input_tokens, output_tokens, cost) ==
    [provider |-> provider, model |-> model,
     input_tokens |-> input_tokens, output_tokens |-> output_tokens,
     total_tokens |-> input_tokens + output_tokens,
     input_cost |-> cost[1], output_cost |-> cost[2], total_cost |-> cost[3]]

ZeroAggregates ==
    [input_tokens |-> 0, output_tokens |-> 0, total_tokens |-> 0, call_count |-> 0,
     input_cost |-> 0, output_cost |-> 0, total_cost |-> 0]

ZeroCumulative == [input_tokens |-> 0, output_tokens |-> 0]

\* get_cumulative_tokens(model_key)
get_cumulative_tokens(cum, key) ==
    IF key \notin DOMAIN cum
    THEN <<0, 0>>
    ELSE <<cum[key].input_tokens, cum[key].output_tokens>>

\* sum(u.field for u in usage_history)
RECURSIVE SumField(_, _)
SumField(h, field) ==
    IF h = <<>> THEN 0 ELSE h[1][field] + SumField(Tail(h), field)

\* get_summary()
get_summary(h, by_model) ==
    [total_usage |-> [input_tokens |-> SumField(h, "input_tokens"),
                      output_tokens |-> SumField(h, "output_tokens"),
                      total_tokens |-> SumField(h, "total_tokens"),
                      call_count |-> Len(h),
                      input_cost |-> SumField(h, "input_cost"),
                      output_cost |-> SumField(h, "output_cost"),
                      total_cost |-> SumField(h, "total_cost")],
     by_model |-> by_model,
     history |-> h]

\* ------------------------------------------------------------ scheduler
NoItem == Item(None, 0, None)

\* variant: the limit itself still counts as time left
TimeLimitReached_Strict(lim, el) == lim # 0 /\ el > lim

\* the top-of-cycle and in-callback test: elapsed_minutes >= time_limit_minutes
TimeLimitReached(lim, el) == lim # 0 /\ el >= lim

\* variant: zero minutes remaining still starts a frame
NoTimeRemaining_Strict(lim, el) == lim # 0 /\ lim - el < 0

\* the pre-frame test: remaining_minutes <= 0
NoTimeRemaining(lim, el) == lim # 0 /\ lim - el <= 0

\* variant: every stop is reported as an interruption
FinalStatus_AlwaysInterrupted(tu) == "interrupted"

\* final_status = 'interrupted' if time_up else 'completed'
FinalStatus(tu) == IF tu THEN "interrupted" ELSE "completed"

Milestones == {"analyzing", "decision", "executing"}
CbStatuses == {"decision", "result"}     \* one milestone status, one other

\* a directive consumed by the scheduler; handed: a frame with its text as goal
\* has since been passed to the worker
AppliedEntry(pos, how) == [pos |-> pos, ts |-> log[pos].ts, how |-> how, handed |-> FALSE]

\* history: investigate(goal) is called; the consumed directives with that text
\* have now reached the worker
Handed(ap, goal) ==
    [k \in 1..Len(ap) |-> IF log[ap[k].pos].text = goal
                          THEN [ap[k] EXCEPT !.handed = TRUE]
                          ELSE ap[k]]

Init ==
    /\ pc = "boot"
    /\ store = <<>>
    /\ log = <<>>
    /\ cursor = 0
    /\ limit \in {0, MaxLimit}
    /\ elapsed = 0
    /\ items = <<>>
    /\ idx = 0
    /\ inv = NoItem
    /\ executed_frames = {}
    /\ completed = <<>>
    /\ last_applied_steer = None
    /\ last_replan_steer = None
    /\ abort_requested = FALSE
    /\ time_up = FALSE
    /\ attempt = 0
    /\ final_status = "none"
    /\ restarts = 0
    /\ trace = <<>>
    /\ applied = <<>>
    /\ call = <<>>
    /\ TrackerIdle

\* variant: stale in-progress frames are left alone
ResetInProgress_Nothing(st) == st

\* AgentRunner.initialize: reset stale in-progress frames to planned
ResetInProgress(st) ==
    LET inprog == ps_list(st, "in_progress")
        RECURSIVE Reset(_, _)
        Reset(s, k) ==
            IF k > Len(inprog) THEN s
            ELSE Reset(IF inprog[k].frame_id # None
                       THEN ps_update_status(s, inprog[k].frame_id, "planned")
                       ELSE s, k + 1)
    IN  Reset(st, 1)

Initialize ==
    /\ pc = "boot"
    /\ store' = ResetInProgress(store)
    /\ trace' = [k \in 1..Len(ps_list(store, "in_progress")) |-> "reset"]
    /\ pc' = "loop_top"
    /\ UNCHANGED <<log, cursor, limit, elapsed, items, idx, inv, executed_frames,
                   completed, last_applied_steer, last_replan_steer,
                   abort_requested, time_up, attempt, final_status, restarts,
                   applied, call>>
    /\ UNCHANGED tracker_vars

\* leaving the while loop: the run reports its terminal status
EndRun(tu) ==
    /\ pc' = "stopped"
    /\ time_up' = tu
    /\ final_status' = FinalStatus(tu)

\* the batch is over: its locals are dead until the next planning cycle
ClearBatch ==
    /\ items' = <<>>
    /\ idx' = 0
    /\ inv' = NoItem
    /\ executed_frames' = {}

\* the for loop moves on to the next frame, or the batch is exhausted
NextFrame ==
    IF idx + 1 > Len(items)
    THEN pc' = "loop_top" /\ ClearBatch
    ELSE /\ pc' = "pre_frame"
         /\ idx' = idx + 1
         /\ inv' = items[idx + 1]
         /\ UNCHANGED <<items, executed_frames>>

\* top of the while loop: time check, then a planning cycle
LoopTop ==
    /\ pc = "loop_top"
    /\ IF TimeLimitReached(limit, elapsed)
       THEN /\ EndRun(time_up)
            /\ UNCHANGED <<store, cursor, items, idx, inv, executed_frames, applied, call>>
       ELSE \E response \in PlannerResponses :
              LET r == plan_investigations(Max(1, PlanN), response, log, cursor, store)
              IN  /\ store' = r.store
                  /\ call' = IF r.need > 0
                             THEN <<[op |-> "plan_next", n |-> r.need, response |-> response]>>
                             ELSE <<>>
                  /\ cursor' = r.cursor
                  /\ applied' = IF r.used # 0
                                THEN Append(applied, AppliedEntry(r.used, "batch"))
                                ELSE applied
                  /\ IF r.items = <<>>
                     THEN /\ EndRun(time_up)
                          /\ UNCHANGED <<items, idx, inv, executed_frames>>
                     ELSE /\ pc' = "pre_frame"
                          /\ items' = r.items
                          /\ idx' = 1
                          /\ inv' = r.items[1]
                          /\ executed_frames' = {}
                          /\ UNCHANGED <<time_up, final_status>>
    /\ trace' = <<>>
    /\ UNCHANGED <<log, limit, elapsed, completed, last_applied_steer,
                   last_replan_steer, abort_requested, attempt, restarts>>
    /\ UNCHANGED tracker_vars

\* the mid-batch steering override: does the newest urgent directive preempt?
\* variant: the goal of the frame at hand is not compared
Overrides_IgnoreGoal(urgent, last, goal) == urgent # None /\ urgent # last

Overrides(urgent, last, goal) == urgent # None /\ urgent # last /\ goal # urgent

\* before a frame: steering override, time check, duplicate skip
PreFrame ==
    /\ pc = "pre_frame"
    /\ LET i == find_latest_urgent_steer(log, cursor)
           urgent == IF i = 0 THEN None ELSE log[i].text
           over == Overrides(urgent, last_applied_steer, items[idx].goal)
           cur == IF over THEN Item(urgent, 10, None) ELSE items[idx]
       IN  /\ last_applied_steer' = IF over THEN urgent ELSE last_applied_steer
           /\ cursor' = IF over THEN consume_steer(cursor, log[i].ts) ELSE cursor
           /\ applied' = IF over THEN Append(applied, AppliedEntry(i, "override"))
                                 ELSE applied
           /\ IF NoTimeRemaining(limit, elapsed)
              THEN \* break; time_up is not set, so back to the top of the while loop
                   /\ pc' = "loop_top"
                   /\ ClearBatch
                   /\ UNCHANGED store
              ELSE IF cur.frame_id # None /\ cur.frame_id \in executed_frames
              THEN \* duplicate within the batch: drop and continue
                   /\ store' = ps_update_status(store, cur.frame_id, "dropped")
                   /\ NextFrame
              ELSE /\ pc' = "mark"
                   /\ inv' = cur
                   /\ UNCHANGED <<store, items, idx, executed_frames>>
    /\ trace' = <<>>
    /\ call' = <<>>
    /\ UNCHANGED <<log, limit, elapsed, completed, last_replan_steer,
                   abort_requested, time_up, attempt, final_status, restarts>>
    /\ UNCHANGED tracker_vars

\* variant: the worker is started without the status update
MarkInProgress_Skipped ==
    /\ pc = "mark"
    /\ pc' = "invoke"
    /\ UNCHANGED <<store, trace, log, cursor, limit, elapsed, items, idx, inv,
                   executed_frames, completed, last_applied_steer,
                   last_replan_steer, abort_requested, time_up, attempt,
                   final_status, restarts, applied, call>>
    /\ UNCHANGED tracker_vars

\* mark the plan item in_progress if it has a frame_id
MarkInProgress ==
    /\ pc = "mark"
    /\ IF inv.frame_id # None
       THEN /\ store' = ps_update_status(store, inv.frame_id, "in_progress")
            /\ trace' = Append(trace, "in_progress")
       ELSE UNCHANGED <<store, trace>>
    /\ pc' = "invoke"
    /\ UNCHANGED <<call, log, cursor, limit, elapsed, items, idx, inv, executed_frames,
                   completed, last_applied_steer, last_replan_steer,
                   abort_requested, time_up, attempt, final_status, restarts,
                   applied>>
    /\ UNCHANGED tracker_vars

\* report = self.agent.investigate(inv.goal, ...)
InvokeWorker ==
    /\ pc = "invoke"
    /\ attempt' = 1
    /\ trace' = Append(trace, "invoke")
    /\ applied' = Handed(applied, inv.goal)
    /\ pc' = "in_worker"
    /\ UNCHANGED <<call, store, log, cursor, limit, elapsed, items, idx, inv,
                   executed_frames, completed, last_applied_steer,
                   last_replan_steer, abort_requested, time_up, final_status,
                   restarts>>
    /\ UNCHANGED tracker_vars

\* variant: any urgent directive requests the abort, global or not
cb_AbortAnyUrgent(status) ==
    /\ pc = "in_worker"
    /\ LET i == IF status \in Milestones THEN find_latest_urgent_steer(log, cursor) ELSE 0
           latest == IF i = 0 THEN None ELSE log[i].text
       IN  IF TimeLimitReached(limit, elapsed)
           THEN /\ EndRun(TRUE)
                /\ ClearBatch
                /\ attempt' = 0
                /\ trace' = Append(trace, "cancelled")
                /\ UNCHANGED <<cursor, last_replan_steer, abort_requested, applied>>
           ELSE IF latest # None /\ latest # last_replan_steer
           THEN /\ last_replan_steer' = latest
                /\ abort_requested' = TRUE
                /\ cursor' = consume_steer(cursor, log[i].ts)
                /\ applied' = Append(applied, AppliedEntry(i, "abort"))
                /\ UNCHANGED <<pc, time_up, final_status, attempt, trace, items,
                               idx, inv, executed_frames>>
           ELSE UNCHANGED <<pc, time_up, final_status, attempt, trace, cursor,
                            last_replan_steer, abort_requested, applied, items,
                            idx, inv, executed_frames>>
    /\ UNCHANGED <<call, store, log, limit, elapsed, completed, last_applied_steer, restarts>>
    /\ UNCHANGED tracker_vars

\* the progress callback, invoked by the worker while it runs
cb(status) ==
    /\ pc = "in_worker"
    /\ LET i == IF status \in Milestones THEN find_latest_urgent_steer(log, cursor) ELSE 0
           latest == IF i = 0 THEN None ELSE log[i].text
       IN  IF TimeLimitReached(limit, elapsed)
           THEN \* raise _TimeLimitReached: caught around investigate(), time_up = True
                /\ EndRun(TRUE)
                /\ ClearBatch
                /\ attempt' = 0
                /\ trace' = Append(trace, "cancelled")
                /\ UNCHANGED <<cursor, last_replan_steer, abort_requested, applied>>
           ELSE IF latest # None /\ latest # last_replan_steer /\ latest \in GlobalTexts
           THEN /\ last_replan_steer' = latest
                /\ abort_requested' = TRUE
                /\ cursor' = consume_steer(cursor, log[i].ts)
                /\ applied' = Append(applied, AppliedEntry(i, "abort"))
                /\ UNCHANGED <<pc, time_up, final_status, attempt, trace, items,
                               idx, inv, executed_frames>>
           ELSE UNCHANGED <<pc, time_up, final_status, attempt, trace, cursor,
                            last_replan_steer, abort_requested, applied, items,
                            idx, inv, executed_frames>>
    /\ UNCHANGED <<call, store, log, limit, elapsed, completed, last_applied_steer, restarts>>
    /\ UNCHANGED tracker_vars

\* variant: the abort flag is not looked at when the worker returns
WorkerReturn_IgnoreAbort ==
    /\ pc = "in_worker"
    /\ attempt' = 0
    /\ completed' = Append(completed, inv.goal)
    /\ executed_frames' = IF inv.frame_id # None
                          THEN executed_frames \cup {inv.frame_id}
                          ELSE executed_frames
    /\ trace' = trace \o <<"return", "append">>
    /\ pc' = "mark_done"
    /\ UNCHANGED <<abort_requested, items, idx, inv>>
    /\ UNCHANGED <<call, store, log, cursor, limit, elapsed, last_applied_steer,
                   last_replan_steer, time_up, final_status, restarts, applied>>
    /\ UNCHANGED tracker_vars

\* investigate() returns a report
WorkerReturn ==
    /\ pc = "in_worker"
    /\ attempt' = 0
    /\ IF abort_requested
       THEN \* aborted by steering: not recorded, break to re-plan
            /\ abort_requested' = FALSE
            /\ trace' = Append(trace, "aborted")
            /\ pc' = "loop_top"
            /\ ClearBatch
            /\ UNCHANGED completed
       ELSE /\ completed' = Append(completed, inv.goal)
            /\ executed_frames' = IF inv.frame_id # None
                                  THEN executed_frames \cup {inv.frame_id}
                                  ELSE executed_frames
            /\ trace' = trace \o <<"return", "append">>
            /\ pc' = "mark_done"
            /\ UNCHANGED <<abort_requested, items, idx, inv>>
    /\ UNCHANGED <<call, store, log, cursor, limit, elapsed, last_applied_steer,
                   last_replan_steer, time_up, final_status, restarts, applied>>
    /\ UNCHANGED tracker_vars

\* variant: the first exception already propagates, there is no second call
WorkerRaise_NoRetry ==
    /\ pc = "in_worker"
    /\ attempt' = 0
    /\ trace' = Append(trace, "raise")
    /\ pc' = "stopped"
    /\ final_status' = "failed"
    /\ ClearBatch
    /\ UNCHANGED <<call, store, log, cursor, limit, elapsed, completed,
                   last_applied_steer, last_replan_steer, abort_requested,
                   time_up, restarts, applied>>
    /\ UNCHANGED tracker_vars

\* investigate() raises something other than _TimeLimitReached
WorkerRaise ==
    /\ pc = "in_worker"
    /\ IF attempt = 1
       THEN \* retry once
            /\ attempt' = 2
            /\ trace' = trace \o <<"raise", "invoke">>
            /\ applied' = Handed(applied, inv.goal)
            /\ UNCHANGED <<pc, final_status, items, idx, inv, executed_frames>>
       ELSE \* the retry raised: propagates out of run(); finalize_tracking('failed')
            /\ attempt' = 0
            /\ trace' = Append(trace, "raise")
            /\ pc' = "stopped"
            /\ final_status' = "failed"
            /\ ClearBatch
            /\ UNCHANGED applied
    /\ UNCHANGED <<call, store, log, cursor, limit, elapsed, completed,
                   last_applied_steer, last_replan_steer, abort_requested,
                   time_up, restarts>>
    /\ UNCHANGED tracker_vars

\* mark the plan item done, then on to the next frame
MarkDone ==
    /\ pc = "mark_done"
    /\ IF inv.frame_id # None
       THEN /\ store' = ps_update_status(store, inv.frame_id, "done")
            /\ trace' = Append(trace, "done")
       ELSE UNCHANGED <<store, trace>>
    /\ NextFrame
    /\ UNCHANGED <<call, log, cursor, limit, elapsed, completed, last_applied_steer,
                   last_replan_steer, abort_requested, time_up, attempt,
                   final_status, restarts, applied>>
    /\ UNCHANGED tracker_vars

\* the process dies or has ended; a new AgentRunner is constructed on the session
Restart ==
    /\ pc \notin {"boot", "harness"}
    /\ restarts < MaxRestarts
    /\ restarts' = restarts + 1
    /\ pc' = "boot"
    /\ elapsed' = 0
    /\ items' = <<>>
    /\ idx' = 0
    /\ inv' = NoItem
    /\ executed_frames' = {}
    /\ completed' = <<>>
    /\ last_applied_steer' = None
    /\ last_replan_steer' = None
    /\ abort_requested' = FALSE
    /\ time_up' = FALSE
    /\ attempt' = 0
    /\ final_status' = "none"
    /\ trace' = <<>>
    /\ call' = <<>>
    /\ UNCHANGED <<store, log, cursor, limit, applied>>
    /\ UNCHANGED tracker_vars

\* an operator appends a directive to steering.jsonl
SteerAppend ==
    /\ pc # "harness"
    /\ Len(log) < MaxLog
    /\ \E ts \in 1..MaxTs, text \in SteerTexts : log' = Append(log, [ts |-> ts, text |-> text])
    /\ UNCHANGED <<call, pc, store, cursor, limit, elapsed, items, idx, inv,
                   executed_frames, completed, last_applied_steer,
                   last_replan_steer, abort_requested, time_up, attempt,
                   final_status, restarts, trace, applied>>
    /\ UNCHANGED tracker_vars

\* wall-clock time passes (it is read only when a time limit is set)
Tick ==
    /\ pc \notin {"boot", "stopped", "harness"}
    /\ limit # 0
    /\ elapsed < MaxElapsed
    /\ elapsed' = elapsed + 1
    /\ UNCHANGED <<call, pc, store, log, cursor, limit, items, idx, inv, executed_frames,
                   completed, last_applied_steer, last_replan_steer,
                   abort_requested, time_up, attempt, final_status, restarts,
                   trace, applied>>
    /\ UNCHANGED tracker_vars

Next ==
    \/ Initialize
    \/ LoopTop
    \/ PreFrame
    \/ MarkInProgress
    \/ InvokeWorker
    \/ \E status \in CbStatuses : cb(status)
    \/ WorkerReturn
    \/ WorkerRaise
    \/ MarkDone
    \/ Restart
    \/ SteerAppend
    \/ Tick

Spec == Init /\ [][Next]_vars

\* --------------------------------------- the steering channel on its own
\* The cursor operations driven with arbitrary arguments: any entry may be
\* written to the log (a line without a timestamp reads as ts 0), and
\* _consume_steer may be called with any timestamp.
MaxCalls == 3       \* calls recorded in one run of the component

InitSteer ==
    /\ pc = "harness"
    /\ store = <<>>
    /\ log = <<>>
    /\ cursor = 0
    /\ limit = 0
    /\ elapsed = 0
    /\ items = <<>>
    /\ idx = 0
    /\ inv = NoItem
    /\ executed_frames = {}
    /\ completed = <<>>
    /\ last_applied_steer = None
    /\ last_replan_steer = None
    /\ abort_requested = FALSE
    /\ time_up = FALSE
    /\ attempt = 0
    /\ final_status = "none"
    /\ restarts = 0
    /\ trace = <<>>
    /\ applied = <<>>
    /\ call = <<>>
    /\ TrackerIdle

SteerWrite ==
    /\ pc = "harness"
    /\ Len(log) < MaxLog
    /\ \E ts \in 0..MaxTs, text \in Texts : log' = Append(log, [ts |-> ts, text |-> text])
    /\ UNCHANGED <<pc, store, cursor, limit, elapsed, items, idx, inv,
                   executed_frames, completed, last_applied_steer,
                   last_replan_steer, abort_requested, time_up, attempt,
                   final_status, restarts, trace, applied, call>>
    /\ UNCHANGED tracker_vars

SteerConsume ==
    /\ pc = "harness"
    /\ Len(call) < MaxCalls
    /\ \E ts \in 0..MaxTs :
         /\ cursor' = consume_steer(cursor, ts)
         /\ call' = Append(call, [op |-> "consume", ts |-> ts, before |-> cursor])
    /\ UNCHANGED <<pc, store, log, limit, elapsed, items, idx, inv,
                   executed_frames, completed, last_applied_steer,
                   last_replan_steer, abort_requested, time_up, attempt,
                   final_status, restarts, trace, applied>>
    /\ UNCHANGED tracker_vars

NextSteer ==
    \/ SteerWrite
    \/ SteerConsume

SpecSteer == InitSteer /\ [][NextSteer]_vars

\* ------------------------------------------------ the plan store on its own
\* The store's operations driven with arbitrary arguments, each call recorded
\* with what it was given and what it answered.
MaxOps == 4         \* store calls recorded in one run of the component

GPay == <<"audit", "payments">>
Questions == {GAuth, GLogin, GPay}
Priorities == {5, 8}

InitStore ==
    /\ pc = "store"
    /\ store = <<>>
    /\ log = <<>>
    /\ cursor = 0
    /\ limit = 0
    /\ elapsed = 0
    /\ items = <<>>
    /\ idx = 0
    /\ inv = NoItem
    /\ executed_frames = {}
    /\ completed = <<>>
    /\ last_applied_steer = None
    /\ last_replan_steer = None
    /\ abort_requested = FALSE
    /\ time_up = FALSE
    /\ attempt = 0
    /\ final_status = "none"
    /\ restarts = 0
    /\ trace = <<>>
    /\ applied = <<>>
    /\ call = <<>>
    /\ TrackerIdle

StorePropose ==
    /\ pc = "store"
    /\ Len(call) < MaxOps
    /\ \E question \in Questions, priority \in Priorities :
         LET r == ps_propose(store, question, priority)
         IN  /\ store' = r.store
             /\ call' = Append(call, [op |-> "propose", question |-> question,
                                      priority |-> priority, created |-> r.created,
                                      frame_id |-> r.frame_id, new |-> "planned",
                                      from |-> "none", ok |-> TRUE])
    /\ UNCHANGED <<pc, log, cursor, limit, elapsed, items, idx, inv,
                   executed_frames, completed, last_applied_steer,
                   last_replan_steer, abort_requested, time_up, attempt,
                   final_status, restarts, trace, applied>>
    /\ UNCHANGED tracker_vars

StoreUpdateStatus ==
    /\ pc = "store"
    /\ Len(call) < MaxOps
    /\ \E fid \in FrameIds(store), new \in Statuses :
         /\ store' = ps_update_status(store, fid, new)
         /\ call' = Append(call, [op |-> "update_status", question |-> None,
                                  priority |-> 0, created |-> FALSE,
                                  frame_id |-> fid, new |-> new,
                                  from |-> StatusOf(store, fid),
                                  ok |-> ps_update_ok(store, fid, new)])
    /\ UNCHANGED <<pc, log, cursor, limit, elapsed, items, idx, inv,
                   executed_frames, completed, last_applied_steer,
                   last_replan_steer, abort_requested, time_up, attempt,
                   final_status, restarts, trace, applied>>
    /\ UNCHANGED tracker_vars

NextStore ==
    \/ StorePropose
    \/ StoreUpdateStatus

SpecStore == InitStore /\ [][NextStore]_vars

\* ------------------------------------------- the scheduler on a failing store
\* The same loop with a plan store whose calls may fail (raise, or be missing
\* because the store could not be opened): each call of list, propose/get and
\* update_status either works or fails.  The clock and the worker behave and
\* no directive is written.  A frame that could not be stored or marked is
\* planned again and again, so calls fail only while the history is short.
MaxCompleted == 2   \* store calls may fail while fewer frames have completed


\* variant: a candidate whose propose failed is left out of the batch
RECURSIVE AddPlannedFault_SkipFailed(_, _, _, _, _, _, _)
AddPlannedFault_SkipFailed(planned, j, prepared, st, existing_frame_ids, n, failing) ==
    IF j > Len(planned) \/ Len(prepared) >= n
    THEN [items |-> prepared, store |-> st]
    ELSE LET d == planned[j]
             r == ps_propose(st, d.goal, d.priority)
             fid == r.frame_id
             skip == /\ ~r.created
                     /\ SkipExisting(ps_get(r.store, fid).status, fid, existing_frame_ids)
         IN  IF j \in failing \/ skip
             THEN AddPlannedFault_SkipFailed(planned, j + 1, prepared,
                                             IF j \in failing THEN st ELSE r.store,
                                             existing_frame_ids, n, failing)
             ELSE AddPlannedFault_SkipFailed(planned, j + 1,
                                             Append(prepared, Item(d.goal, d.priority, fid)),
                                             r.store, existing_frame_ids \cup {fid}, n, failing)

\* step 3 when propose (or the get after it) raises for the candidates at the
\* positions in `failing`: frame_id = None, skip stays False
RECURSIVE AddPlannedFault(_, _, _, _, _, _, _)
AddPlannedFault(planned, j, prepared, st, existing_frame_ids, n, failing) ==
    IF j > Len(planned) \/ Len(prepared) >= n
    THEN [items |-> prepared, store |-> st]
    ELSE LET d == planned[j]
             r == ps_propose(st, d.goal, d.priority)
             fid == r.frame_id
             skip == /\ ~r.created
                     /\ SkipExisting(ps_get(r.store, fid).status, fid, existing_frame_ids)
         IN  IF j \in failing
             THEN AddPlannedFault(planned, j + 1,
                                  Append(prepared, Item(d.goal, d.priority, None)),
                                  st, existing_frame_ids, n, failing)
             ELSE IF skip
             THEN AddPlannedFault(planned, j + 1, prepared, r.store,
                                  existing_frame_ids, n, failing)
             ELSE AddPlannedFault(planned, j + 1,
                                  Append(prepared, Item(d.goal, d.priority, fid)),
                                  r.store, existing_frame_ids \cup {fid}, n, failing)

\* _plan_investigations(n) when list works or not and propose fails for some
plan_investigations_fault(n, response, lg, cur, st, list_ok, failing) ==
    LET s0 == PlanSteering(lg, cur)
        pend == IF list_ok THEN PlanPending(st, n) ELSE <<>>
        prepared == s0.prepared \o pend
        existing == { pend[k].frame_id : k \in 1..Len(pend) } \ {None}
        need == Max(0, n - Len(prepared))
        r == AddPlannedFault(response, 1, prepared, st, existing, n, failing)
    IN  IF Len(prepared) >= n
        THEN [items |-> SubSeq(prepared, 1, n), store |-> st, cursor |-> s0.cursor,
              used |-> s0.used, need |-> 0]
        ELSE [items |-> r.items, store |-> r.store, cursor |-> s0.cursor,
              used |-> s0.used, need |-> need]

InitFault == Init /\ limit = 0

\* initialize() when the store cannot be opened, or list / update_status fails
InitializeFault ==
    /\ pc = "boot"
    /\ pc' = "loop_top"
    /\ trace' = <<"reset_failed">>
    /\ UNCHANGED <<store, log, cursor, limit, elapsed, items, idx, inv, executed_frames,
                   completed, last_applied_steer, last_replan_steer,
                   abort_requested, time_up, attempt, final_status, restarts,
                   applied, call>>
    /\ UNCHANGED tracker_vars

\* a planning cycle in which store calls fail
LoopTopFault ==
    /\ pc = "loop_top"
    /\ Len(completed) < MaxCompleted
    /\ ~TimeLimitReached(limit, elapsed)
    /\ \E response \in PlannerResponses, list_ok \in BOOLEAN,
          failing \in SUBSET (1..MaxPlanned) :
         LET r == plan_investigations_fault(Max(1, PlanN), response, log, cursor,
                                            store, list_ok, failing)
         IN  /\ ~list_ok \/ failing # {}
             /\ failing \subseteq 1..Len(response)
             /\ store' = r.store
             /\ cursor' = r.cursor
             /\ call' = <<[op |-> "plan_next", n |-> r.need, response |-> response,
                           list_ok |-> list_ok, failing |-> failing]>>
             /\ applied' = IF r.used # 0
                           THEN Append(applied, AppliedEntry(r.used, "batch"))
                           ELSE applied
             /\ IF r.items = <<>>
                THEN /\ EndRun(time_up)
                     /\ UNCHANGED <<items, idx, inv, executed_frames>>
                ELSE /\ pc' = "pre_frame"
                     /\ items' = r.items
                     /\ idx' = 1
                     /\ inv' = r.items[1]
                     /\ executed_frames' = {}
                     /\ UNCHANGED <<time_up, final_status>>
    /\ trace' = <<>>
    /\ UNCHANGED <<log, limit, elapsed, completed, last_applied_steer,
                   last_replan_steer, abort_requested, attempt, restarts>>
    /\ UNCHANGED tracker_vars

\* update_status(IN_PROGRESS) fails: caught, the frame is started all the same
MarkInProgressFault ==
    /\ pc = "mark"
    /\ Len(completed) < MaxCompleted
    /\ inv.frame_id # None
    /\ trace' = Append(trace, "in_progress_failed")
    /\ pc' = "invoke"
    /\ UNCHANGED <<call, store, log, cursor, limit, elapsed, items, idx, inv,
                   executed_frames, completed, last_applied_steer,
                   last_replan_steer, abort_requested, time_up, attempt,
                   final_status, restarts, applied>>
    /\ UNCHANGED tracker_vars

\* update_status(DONE) fails: caught, on to the next frame
MarkDoneFault ==
    /\ pc = "mark_done"
    /\ Len(completed) < MaxCompleted
    /\ inv.frame_id # None
    /\ trace' = Append(trace, "done_failed")
    /\ NextFrame
    /\ UNCHANGED <<call, store, log, cursor, limit, elapsed, completed,
                   last_applied_steer, last_replan_steer, abort_requested,
                   time_up, attempt, final_status, restarts, applied>>
    /\ UNCHANGED tracker_vars

NextFault ==
    \/ Initialize
    \/ InitializeFault
    \/ LoopTop
    \/ LoopTopFault
    \/ PreFrame
    \/ MarkInProgress
    \/ MarkInProgressFault
    \/ InvokeWorker
    \/ WorkerReturn
    \/ MarkDone
    \/ MarkDoneFault
    \/ Restart

SpecFault == InitFault /\ [][NextFault]_vars

\* --------------------------------------------- the steering log and its reader
\* The log file under an operator who appends lines, some malformed, some
\* caught half-written, and a reader that calls _read_steering_entries and
\* _find_latest_urgent_steer at any moment.  The log may already be long.
ReadLimits == {1, 2, SteerReadLimit}

\* what a line that does not parse holds: the start of a JSON object
RawText(text) == <<"{">> \o text

\* a log from earlier sessions: a directive followed by SteerReadLimit remarks
LongLog ==
    [i \in 1..(SteerReadLimit + 1) |->
       IF i = 1 THEN [ts |-> 1, text |-> TTarget] ELSE [ts |-> 1, text |-> TNoise]]

InitReader ==
    /\ pc = "reader"
    /\ store = <<>>
    /\ log \in {<<>>, LongLog}
    /\ cursor = 0
    /\ limit = 0
    /\ elapsed = 0
    /\ items = <<>>
    /\ idx = 0
    /\ inv = NoItem
    /\ executed_frames = {}
    /\ completed = <<>>
    /\ last_applied_steer = None
    /\ last_replan_steer = None
    /\ abort_requested = FALSE
    /\ time_up = FALSE
    /\ attempt = 0
    /\ final_status = "none"
    /\ restarts = 0
    /\ trace = <<>>
    /\ applied = <<>>
    /\ call = <<>>
    /\ TrackerIdle

\* lines appended since the start
Written == IF Len(log) > SteerReadLimit THEN Len(log) - (SteerReadLimit + 1) ELSE Len(log)

HalfWritten == log # <<>> /\ IsRawLine(log[Len(log)]) /\ log[Len(log)].text # None

ReaderUnchanged ==
    UNCHANGED <<pc, store, limit, elapsed, items, idx, inv, executed_frames,
                completed, last_applied_steer, last_replan_steer, abort_requested,
                time_up, attempt, final_status, restarts, trace, applied>>

\* the operator appends a whole line: a directive, an entry without text, or
\* a line that is not JSON
WriteLine ==
    /\ pc = "reader"
    /\ Written < MaxLog
    /\ ~HalfWritten
    /\ \/ \E ts \in 0..MaxTs, text \in Texts \cup {None} :
            log' = Append(log, [ts |-> ts, text |-> text])
       \/ log' = Append(log, [raw |-> TNoise, ts |-> 0, text |-> None])
    /\ call' = <<>>
    /\ UNCHANGED cursor
    /\ ReaderUnchanged
    /\ UNCHANGED tracker_vars

\* the first part of a directive's line has reached the file
BeginWrite ==
    /\ pc = "reader"
    /\ Written < MaxLog
    /\ ~HalfWritten
    /\ \E ts \in 1..MaxTs, text \in Texts :
         log' = Append(log, [raw |-> RawText(text), ts |-> ts, text |-> text])
    /\ call' = <<>>
    /\ UNCHANGED cursor
    /\ ReaderUnchanged
    /\ UNCHANGED tracker_vars

\* the rest of the line has reached the file
FinishWrite ==
    /\ pc = "reader"
    /\ HalfWritten
    /\ log' = [log EXCEPT ![Len(log)] = [ts |-> log[Len(log)].ts,
                                         text |-> log[Len(log)].text]]
    /\ call' = <<>>
    /\ UNCHANGED cursor
    /\ ReaderUnchanged
    /\ UNCHANGED tracker_vars

\* _read_steering_entries(limit)
ReadRecent ==
    /\ pc = "reader"
    /\ \E lim \in ReadLimits :
         call' = <<[op |-> "read_recent", limit |-> lim,
                    result |-> read_steering_entries(log, lim)]>>
    /\ UNCHANGED <<log, cursor>>
    /\ ReaderUnchanged
    /\ UNCHANGED tracker_vars

\* _find_latest_urgent_steer()
LatestUrgent ==
    /\ pc = "reader"
    /\ call' = <<[op |-> "latest_urgent", last_ts |-> cursor,
                  result |-> find_latest_urgent(log, cursor)]>>
    /\ UNCHANGED <<log, cursor>>
    /\ ReaderUnchanged
    /\ UNCHANGED tracker_vars

\* _consume_steer(ts)
ReaderConsume ==
    /\ pc = "reader"
    /\ \E ts \in 1..MaxTs :
         /\ consume_steer(cursor, ts) # cursor
         /\ cursor' = consume_steer(cursor, ts)
    /\ call' = <<>>
    /\ UNCHANGED log
    /\ ReaderUnchanged
    /\ UNCHANGED tracker_vars

NextReader ==
    \/ WriteLine
    \/ BeginWrite
    \/ FinishWrite
    \/ ReadRecent
    \/ LatestUrgent
    \/ ReaderConsume

SpecReader == InitReader /\ [][NextReader]_vars

\* ------------------------------------------------- the two text classifiers
\* _is_global_steer and the test of _find_latest_urgent_steer applied to the
\* texts of up to MaxWords words over a small vocabulary.
MaxWords == 3

Vocabulary == {"across", "Whole", "codebase", "check", "fees", "modules"}

ClassifyTexts == UNION { [1..n -> Vocabulary] : n \in 0..MaxWords }

InitClassify ==
    /\ pc = "classify"
    /\ store = <<>>
    /\ log = <<>>
    /\ cursor = 0
    /\ limit = 0
    /\ elapsed = 0
    /\ items = <<>>
    /\ idx = 0
    /\ inv = NoItem
    /\ executed_frames = {}
    /\ completed = <<>>
    /\ last_applied_steer = None
    /\ last_replan_steer = None
    /\ abort_requested = FALSE
    /\ time_up = FALSE
    /\ attempt = 0
    /\ final_status = "none"
    /\ restarts = 0
    /\ trace = <<>>
    /\ applied = <<>>
    /\ call = <<>>
    /\ TrackerIdle

\* one text is put to both classifiers
Classify ==
    /\ pc = "classify"
    /\ \E text \in ClassifyTexts :
         call' = <<[op |-> "classify", text |-> text,
                    is_global |-> is_global_steer(text), urgent |-> IsUrgent(text)]>>
    /\ UNCHANGED <<log, cursor>>
    /\ ReaderUnchanged
    /\ UNCHANGED tracker_vars

NextClassify == Classify

SpecClassify == InitClassify /\ [][NextClassify]_vars

\* ------------------------------------- the token tracker and the calculator
\* Threads charge LLM calls: each looks up the cumulative tokens of its model,
\* computes the cost and hands both to track_usage.  track_usage holds _lock
\* from its first statement to its last; its body is taken in three steps.
MaxHistory == 2     \* calls charged between two resets
MaxResets == 1      \* reset() calls

Tier(threshold, input_cost, output_cost) ==
    [threshold |-> threshold, input_cost |-> input_cost, output_cost |-> output_cost]

\* tiers 0 and 1000 at 10 and 5 per 1000 input tokens, listed out of order,
\* the lower one without a threshold
TwoTiers ==
    [unit |-> 1000,
     tiers |-> <<Tier(1000, 5, 3), [input_cost |-> 10, output_cost |-> 6]>>]

ThreeTiers ==
    [unit |-> 1000,
     tiers |-> <<Tier(0, 10, 6), Tier(500, 8, 4), Tier(1000, 5, 3)>>]

\* no unit: per million tokens
SimplePricing == [input_cost |-> 3, output_cost |-> 15]

ModelCfg(provider, model, pricing) ==
    [provider |-> provider, model |-> model, pricing |-> pricing]

\* config["models"]: profile sections in file order
Configs ==
    { <<ModelCfg("mock", "tiered", TwoTiers), ModelCfg("openai", "gpt", SimplePricing)>>,
      <<ModelCfg("Mock", "tiered", ThreeTiers), [provider |-> "openai", model |-> "gpt"]>>,
      <<ModelCfg("mock", "tiered", SimplePricing), ModelCfg("mock", "tiered", TwoTiers),
        [model |-> "gpt", pricing |-> SimplePricing]>> }

\* what the callers charge
RuntimeModels == { <<"Mock", "tiered">>, <<"OpenAI", "gpt">> }
InputTokens == {500, 800}
OutputTokens == {0, 300}

ThreadKey(t) == model_key(threads[t].provider, threads[t].model)

\* calls on their way to track_usage
Pending == { t \in Threads : threads[t].pc \in {"looked_up", "costed"} }

InitTracker ==
    /\ pc = "tracker"
    /\ store = <<>>
    /\ log = <<>>
    /\ cursor = 0
    /\ limit = 0
    /\ elapsed = 0
    /\ items = <<>>
    /\ idx = 0
    /\ inv = NoItem
    /\ executed_frames = {}
    /\ completed = <<>>
    /\ last_applied_steer = None
    /\ last_replan_steer = None
    /\ abort_requested = FALSE
    /\ time_up = FALSE
    /\ attempt = 0
    /\ final_status = "none"
    /\ restarts = 0
    /\ trace = <<>>
    /\ applied = <<>>
    /\ call = <<>>
    /\ usage_history = <<>>
    /\ usage_by_model = NoModels
    /\ cumulative_tokens = NoModels
    /\ lock = 0
    /\ output_file = FALSE
    /\ pricing_cache \in { load_pricing(c, 1, NoModels) : c \in Configs }
    /\ threads = [t \in Threads |-> IdleThread]
    /\ resets = 0

\* set_output_file(path)
SetOutputFile ==
    /\ pc = "tracker"
    /\ ~output_file
    /\ output_file' = TRUE
    /\ UNCHANGED <<usage_history, usage_by_model, cumulative_tokens, lock,
                   pricing_cache, threads, resets>>
    /\ UNCHANGED sched_vars

\* a caller starts charging a call: get_cumulative_tokens(model_key), under _lock
Lookup(t) ==
    /\ pc = "tracker"
    /\ threads[t].pc = "idle"
    /\ lock = 0
    /\ Len(usage_history) + Cardinality(Pending) < MaxHistory
    /\ \E m \in RuntimeModels, i \in InputTokens, o \in OutputTokens :
         threads' = [threads EXCEPT ![t] =
                       [pc |-> "looked_up", provider |-> m[1], model |-> m[2],
                        input_tokens |-> i, output_tokens |-> o,
                        cumulative |-> get_cumulative_tokens(cumulative_tokens,
                                                             model_key(m[1], m[2])),
                        cost |-> <<0, 0, 0>>]]
    /\ UNCHANGED <<usage_history, usage_by_model, cumulative_tokens, lock,
                   output_file, pricing_cache, resets>>
    /\ UNCHANGED sched_vars

\* calculate_cost with the counters looked up, no lock held
ComputeCost(t) ==
    /\ pc = "tracker"
    /\ threads[t].pc = "looked_up"
    /\ threads' = [threads EXCEPT ![t].pc = "costed",
                                  ![t].cost = calculate_cost(pricing_cache, ThreadKey(t),
                                                threads[t].input_tokens,
                                                threads[t].output_tokens,
                                                threads[t].cumulative[1],
                                                threads[t].cumulative[2])]
    /\ UNCHANGED <<usage_history, usage_by_model, cumulative_tokens, lock,
                   output_file, pricing_cache, resets>>
    /\ UNCHANGED sched_vars

\* track_usage: take _lock, build the usage record, append it to the history
TrackAppend(t) ==
    /\ pc = "tracker"
    /\ threads[t].pc = "costed"
    /\ lock = 0
    /\ lock' = t
    /\ usage_history' = Append(usage_history,
                               TokenUsage(threads[t].provider, threads[t].model,
                                          threads[t].input_tokens,
                                          threads[t].output_tokens, threads[t].cost))
    /\ threads' = [threads EXCEPT ![t].pc = "aggregates"]
    /\ UNCHANGED <<usage_by_model, cumulative_tokens, output_file, pricing_cache, resets>>
    /\ UNCHANGED sched_vars

\* variant: the call is not counted
AddUsage_NoCount(agg, th) ==
    [input_tokens |-> agg.input_tokens + th.input_tokens,
     output_tokens |-> agg.output_tokens + th.output_tokens,
     total_tokens |-> agg.total_tokens + th.input_tokens + th.output_tokens,
     call_count |-> agg.call_count,
     input_cost |-> agg.input_cost + th.cost[1],
     output_cost |-> agg.output_cost + th.cost[2],
     total_cost |-> agg.total_cost + th.cost[3]]

\* the seven += on usage_by_model[model_key]
AddUsage(agg, th) ==
    [input_tokens |-> agg.input_tokens + th.input_tokens,
     output_tokens |-> agg.output_tokens + th.output_tokens,
     total_tokens |-> agg.total_tokens + th.input_tokens + th.output_tokens,
     call_count |-> agg.call_count + 1,
     input_cost |-> agg.input_cost + th.cost[1],
     output_cost |-> agg.output_cost + th.cost[2],
     total_cost |-> agg.total_cost + th.cost[3]]

\* track_usage: update the model aggregates
TrackAggregates(t) ==
    /\ pc = "tracker"
    /\ threads[t].pc = "aggregates"
    /\ lock = t
    /\ usage_by_model' = Put(usage_by_model, ThreadKey(t),
                             AddUsage(Get(usage_by_model, ThreadKey(t), ZeroAggregates),
                                      threads[t]))
    /\ threads' = [threads EXCEPT ![t].pc = "cumulative"]
    /\ UNCHANGED <<usage_history, cumulative_tokens, lock, output_file,
                   pricing_cache, resets>>
    /\ UNCHANGED sched_vars

\* the end of a critical section: with an output file, _save_to_file calls
\* get_summary, which takes _lock again; threading.Lock is not reentrant, so
\* the thread waits for itself and the lock is never released
Release(t) ==
    IF output_file
    THEN /\ lock' = t
         /\ threads' = [threads EXCEPT ![t] = [IdleThread EXCEPT !.pc = "deadlocked"]]
    ELSE /\ lock' = 0
         /\ threads' = [threads EXCEPT ![t] = IdleThread]

\* track_usage: update the cumulative counters, save, release _lock
TrackCumulative(t) ==
    /\ pc = "tracker"
    /\ threads[t].pc = "cumulative"
    /\ lock = t
    /\ LET c == Get(cumulative_tokens, ThreadKey(t), ZeroCumulative)
       IN  cumulative_tokens' =
             Put(cumulative_tokens, ThreadKey(t),
                 [input_tokens |-> c.input_tokens + threads[t].input_tokens,
                  output_tokens |-> c.output_tokens + threads[t].output_tokens])
    /\ Release(t)
    /\ UNCHANGED <<usage_history, usage_by_model, output_file, pricing_cache, resets>>
    /\ UNCHANGED sched_vars

\* variant: reset() leaves the cumulative counters
ResetCumulative_Kept(cum) == cum

\* self._cumulative_tokens.clear()
ResetCumulative(cum) == NoModels

\* reset(), under _lock
Reset(t) ==
    /\ pc = "tracker"
    /\ threads[t].pc = "idle"
    /\ lock = 0
    /\ resets < MaxResets
    /\ resets' = resets + 1
    /\ usage_history' = <<>>
    /\ usage_by_model' = NoModels
    /\ cumulative_tokens' = ResetCumulative(cumulative_tokens)
    /\ Release(t)
    /\ UNCHANGED <<output_file, pricing_cache>>
    /\ UNCHANGED sched_vars

NextTracker ==
    \/ SetOutputFile
    \/ \E t \in Threads : Lookup(t)
    \/ \E t \in Threads : ComputeCost(t)
    \/ \E t \in Threads : TrackAppend(t)
    \/ \E t \in Threads : TrackAggregates(t)
    \/ \E t \in Threads : TrackCumulative(t)
    \/ \E t \in Threads : Reset(t)

SpecTracker == InitTracker /\ [][NextTracker]_vars

\* ------------------------------------------------- the tiered cost on its own
\* _calculate_tiered_cost on the tier lists _load_pricing produces, for one
\* usage charged whole and charged in two parts.
TierLists ==
    { <<Tier(0, 10, 6)>>,
      <<Tier(0, 10, 6), Tier(1000, 5, 3)>>,
      <<Tier(1000, 5, 3), Tier(0, 10, 6)>>,
      <<Tier(0, 10, 6), Tier(500, 8, 4), Tier(1000, 5, 3)>>,
      <<Tier(500, 8, 4), Tier(1000, 5, 3)>>,
      <<Tier(0, 10, 6), Tier(1000, 5, 3), Tier(1000, 2, 1)>> }

Cumulatives == {0, 300, 500, 800, 1000, 1200}
Amounts == {0, 200, 500, 700}

\* the tiers as the cache holds them
CachedTiers(raw) ==
    load_pricing(<<ModelCfg("mock", "tiered", [unit |-> 1000, tiers |-> raw])>>, 1,
                 NoModels)[model_key("Mock", "tiered")].tiers

InitPricing ==
    /\ pc = "pricing"
    /\ store = <<>>
    /\ log = <<>>
    /\ cursor = 0
    /\ limit = 0
    /\ elapsed = 0
    /\ items = <<>>
    /\ idx = 0
    /\ inv = NoItem
    /\ executed_frames = {}
    /\ completed = <<>>
    /\ last_applied_steer = None
    /\ last_replan_steer = None
    /\ abort_requested = FALSE
    /\ time_up = FALSE
    /\ attempt = 0
    /\ final_status = "none"
    /\ restarts = 0
    /\ trace = <<>>
    /\ applied = <<>>
    /\ call = <<>>
    /\ TrackerIdle

\* a + b tokens after c are charged in one call, and in two calls of a and b
PriceCall ==
    /\ pc = "pricing"
    /\ call = <<>>
    /\ \E raw \in TierLists, c \in Cumulatives, a \in Amounts, b \in Amounts,
          cost_type \in {"input_cost", "output_cost"} :
         LET tiers == CachedTiers(raw)
         IN  call' = <<[op |-> "tiered_cost", tiers |-> tiers, cost_type |-> cost_type,
                        c |-> c, a |-> a, b |-> b,
                        start |-> StartTier(tiers, 1, c, 1),
                        whole |-> tiered_cost_run(a + b, c, tiers, 1000, cost_type),
                        first |-> tiered_cost_run(a, c, tiers, 1000, cost_type),
                        second |-> tiered_cost_run(b, c + a, tiers, 1000, cost_type)]>>
    /\ UNCHANGED <<log, cursor>>
    /\ ReaderUnchanged
    /\ UNCHANGED tracker_vars

NextPricing == PriceCall

SpecPricing == InitPricing /\ [][NextPricing]_vars

\* ------------------------------------------------------------- properties
\* a step of the control loop (not the clock, the operator or a restart)
SchedStep == log' = log /\ elapsed' = elapsed /\ restarts' = restarts

\* investigate() is entered in this step (first call or the retry)
WorkerInvoked == attempt' # attempt /\ attempt' > 0

InTrace(e) == \E k \in 1..Len(trace) : trace[k] = e
DoneFrames(st) == { st[k].frame_id : k \in { j \in 1..Len(st) : st[j].status = "done" } }
InProgressFrames(st) ==
    { st[k].frame_id : k \in { j \in 1..Len(st) : st[j].status = "in_progress" } }
PlannedFrames(st) ==
    { st[k].frame_id : k \in { j \in 1..Len(st) : st[j].status = "planned" } }

\* C1: once a frame's status is DONE it stays DONE, and the worker is never
\* invoked for a frame_id whose status is DONE - in the same run or after a
\* restart.
C1_AtMostOnce ==
    [][ /\ \A f \in DoneFrames(store) : f \in DoneFrames(store')
        /\ (WorkerInvoked /\ inv'.frame_id # None) => inv'.frame_id \notin DoneFrames(store)
      ]_vars

\* a worker call is in flight after a restart, for a frame with an id, while
\* another frame of the session is already DONE
C1_Witness ==
    /\ restarts >= 1
    /\ pc = "in_worker"
    /\ inv.frame_id # None
    /\ DoneFrames(store) # {}

\* C2: the step in which initialize() attaches to the session turns every
\* IN_PROGRESS frame into PLANNED, creates and removes no record, leaves every
\* other frame as it was, and hands over to the first planning cycle with no
\* frame IN_PROGRESS.
C2_ResumeSafety ==
    [][ (pc = "boot" /\ pc' # "boot") =>
          /\ pc' = "loop_top"
          /\ Len(store') = Len(store)
          /\ \A k \in 1..Len(store) :
                store'[k] = IF store[k].status = "in_progress"
                            THEN [store[k] EXCEPT !.status = "planned"]
                            ELSE store[k]
          /\ InProgressFrames(store') = {}
      ]_vars

\* initialize() has just reset one frame; a DONE frame sits beside it untouched
C2_Witness ==
    /\ pc = "loop_top"
    /\ trace = <<"reset">>
    /\ PlannedFrames(store) # {}
    /\ DoneFrames(store) # {}

\* C3: for a frame with a frame_id, update_status(IN_PROGRESS) has been issued
\* when the worker is invoked; update_status(DONE) is issued only after
\* in_progress, the invocation, a normal return and the append to the
\* completed history, with no abort pending; and a frame's status becomes DONE
\* only in such a step, for the frame at hand.
C3_ExecutionOrder ==
    [][ /\ (WorkerInvoked /\ inv.frame_id # None) => InTrace("in_progress")
        /\ (Len(trace') = Len(trace) + 1 /\ trace'[Len(trace')] = "done") =>
              /\ inv.frame_id # None
              /\ Len(trace) >= 4
              /\ trace[1] = "in_progress"
              /\ trace[2] = "invoke"
              /\ trace[Len(trace) - 1] = "return"
              /\ trace[Len(trace)] = "append"
              /\ ~abort_requested
              /\ completed # <<>>
              /\ completed[Len(completed)] = inv.goal
        /\ \A f \in DoneFrames(store') \ DoneFrames(store) :
              /\ f = inv.frame_id
              /\ InTrace("return")
              /\ trace' = Append(trace, "done")
      ]_vars

\* a frame went through the whole sequence and is DONE in the store
C3_Witness ==
    /\ trace = <<"in_progress", "invoke", "return", "append", "done">>
    /\ DoneFrames(store) # {}

\* C4: when a budget check (top of a planning cycle, or before a frame) finds
\* no time remaining, the step leaves the batch: it plans nothing, issues no
\* update_status, invokes no worker, and the loop is on its way out.
C4_NoStartAfterDeadline ==
    [][ (SchedStep /\ pc \in {"loop_top", "pre_frame"} /\ limit # 0 /\ limit - elapsed <= 0) =>
          /\ pc' \in {"stopped", "loop_top"}
          /\ (pc = "loop_top" => pc' = "stopped")
          /\ store' = store
          /\ attempt' = 0
          /\ items' \in {<<>>, items}
      ]_vars

\* the run was stopped by a budget check outside the worker while a planned
\* frame was still waiting
C4_Witness ==
    /\ pc = "stopped"
    /\ limit # 0
    /\ elapsed >= limit
    /\ ~time_up
    /\ final_status # "failed"
    /\ PlannedFrames(store) # {}

\* C5: whenever the run stops because the time budget is exhausted - found at
\* the top of a planning cycle or inside a progress callback - the terminal
\* status reported is "interrupted".
C5_BudgetStopInterrupted ==
    [][ (SchedStep /\ pc' = "stopped" /\ limit # 0 /\ elapsed >= limit
           /\ (pc = "loop_top" \/ time_up')) =>
          final_status' = "interrupted"
      ]_vars

\* C6: a progress-callback tick after the deadline raises the cancellation:
\* the frame is not appended to the completed history, no status changes (the
\* frame at hand stays IN_PROGRESS), nothing further is started and the run
\* ends with status "interrupted", not "failed".
C6_CooperativeCancel ==
    [][ /\ ((\E status \in CbStatuses : cb(status)) /\ limit # 0 /\ elapsed >= limit) =>
              (time_up' /\ ~time_up)
        /\ (time_up' /\ ~time_up) =>
              /\ pc = "in_worker"
              /\ pc' = "stopped"
              /\ final_status' = "interrupted"
              /\ attempt' = 0
              /\ completed' = completed
              /\ store' = store
              /\ inv.frame_id # None => inv.frame_id \in InProgressFrames(store')
      ]_vars

\* the run ended by a cancellation raised in the callback, and the frame that
\* was running is still IN_PROGRESS
C6_Witness ==
    /\ pc = "stopped"
    /\ trace # <<>>
    /\ trace[Len(trace)] = "cancelled"
    /\ final_status = "interrupted"
    /\ InProgressFrames(store) # {}

\* the applied entries that became frames
FramePositions == { k \in 1..Len(applied) : applied[k].how \in {"batch", "override"} }

\* C7: no steering entry is turned into a frame (by plan_batch or as an
\* override) more than once.
C7_DirectiveAtMostOnce ==
    \A j, k \in FramePositions : applied[j].pos = applied[k].pos => j = k

\* two directives have become frames, one of them after a restart
C7_Witness ==
    /\ restarts >= 1
    /\ Cardinality(FramePositions) >= 2

\* C8: the timestamps of the directives applied (batch frame, override or
\* abort trigger) are strictly increasing.
C8_AppliedInOrder ==
    \A j, k \in 1..Len(applied) : j < k => applied[j].ts < applied[k].ts

\* an abort trigger and a later frame have both been applied
C8_Witness ==
    /\ Len(applied) >= 2
    /\ applied[1].how = "abort"
    /\ applied[2].how \in {"batch", "override"}

\* the largest timestamp among the consume calls made so far (0 when none)
MaxConsumed ==
    IF call = <<>> THEN 0
    ELSE LET tss == { call[k].ts : k \in 1..Len(call) }
         IN  CHOOSE m \in tss : \A t \in tss : t <= m

\* C9: the cursor is the largest timestamp ever passed to consume: each call
\* changes it only when its timestamp is strictly greater than the cursor, so
\* the cursor never decreases, a smaller timestamp after a larger one leaves it
\* at the larger, and repeating a call changes nothing.
C9_CursorMonotone ==
    /\ cursor = MaxConsumed
    /\ \A k \in 1..Len(call) :
          /\ call[k].before <= (IF k < Len(call) THEN call[k + 1].before ELSE cursor)
          /\ (call[k].ts <= call[k].before) =>
                (IF k < Len(call) THEN call[k + 1].before ELSE cursor) = call[k].before

\* consume(2) was followed by consume(1) and the cursor is still 2
C9_Witness ==
    /\ Len(call) >= 2
    /\ call[1].ts = 2
    /\ call[2].ts = 1
    /\ cursor = 2

\* the newest unconsumed urgent directive, as the scheduler finds it
NewestUrgent == find_latest_urgent_steer(log, cursor)
NewestUrgentText == IF NewestUrgent = 0 THEN None ELSE log[NewestUrgent].text

\* some unconsumed urgent directive in the log is global
PendingGlobal ==
    \E k \in 1..Len(log) :
        log[k].ts > cursor /\ log[k].text \in UrgentTexts /\ log[k].text \in GlobalTexts

DeadlinePassed == limit # 0 /\ elapsed >= limit

WorkerReturned == SchedStep /\ pc = "in_worker" /\ pc' \notin {"in_worker", "stopped"}

\* C11: when the worker returns with a steering abort requested, nothing is
\* appended to the completed history, no status is updated (the frame at hand
\* stays IN_PROGRESS and is not DONE), the rest of the batch is abandoned, the
\* abort flag is cleared and control is back at the top of the planning loop.
C11_AbortHandling ==
    [][ (WorkerReturned /\ abort_requested) =>
          /\ completed' = completed
          /\ store' = store
          /\ (inv.frame_id # None =>
                (inv.frame_id \in InProgressFrames(store')
                   /\ inv.frame_id \notin DoneFrames(store')))
          /\ pc' = "loop_top"
          /\ items' = <<>>
          /\ attempt' = 0
          /\ ~abort_requested'
      ]_vars

\* a frame was aborted on return and is still IN_PROGRESS, another frame is
\* still PLANNED, and the loop is about to plan again
C11_Witness ==
    /\ pc = "loop_top"
    /\ trace # <<>>
    /\ trace[Len(trace)] = "aborted"
    /\ InProgressFrames(store) # {}
    /\ PlannedFrames(store) # {}

\* C12 (its case): the duplicate-frame rule fires only for a batch that holds
\* the same frame_id twice.  With a store that keeps its contract no such
\* batch is assembled, no frame waiting in the batch is in executed_frames,
\* and no frame is ever DROPPED.
C12_NoDuplicateInBatch ==
    /\ \A j, k \in 1..Len(items) :
          (j < k /\ items[j].frame_id = items[k].frame_id) => items[j].frame_id = None
    /\ \A k \in 1..Len(items) :
          (k >= idx /\ pc \in {"pre_frame", "mark", "invoke", "in_worker"}) =>
              items[k].frame_id \notin executed_frames
    /\ \A k \in 1..Len(store) : store[k].status # "dropped"

\* the propose calls made before the one recorded last, for the same question
EarlierProposals(c) ==
    { j \in 1..(Len(c) - 1) : c[j].op = "propose" /\ c[j].question = c[Len(c)].question }

\* C13: a propose of a question proposed before answers created = false with
\* the frame_id of the first call and leaves the store as it was, whatever
\* priority it carries; a first propose answers created = true; either way
\* the store then holds exactly one record with that frame_id.
C13_IdempotentPropose ==
    [][ (call' # call /\ call'[Len(call')].op = "propose") =>
          LET last == call'[Len(call')]
              earlier == EarlierProposals(call')
          IN  /\ Cardinality({ k \in 1..Len(store') : store'[k].frame_id = last.frame_id }) = 1
              /\ IF earlier = {}
                 THEN last.created
                 ELSE /\ ~last.created
                      /\ \A j \in earlier : call'[j].frame_id = last.frame_id
                      /\ store' = store
      ]_vars

\* the same question was proposed twice, the second time with another priority
C13_Witness ==
    \E j, k \in 1..Len(call) :
        /\ j < k
        /\ call[j].op = "propose" /\ call[k].op = "propose"
        /\ call[j].question = call[k].question
        /\ call[j].priority # call[k].priority
        /\ call[j].created /\ ~call[k].created

\* the transitions the store's contract allows
AllowedEdges ==
    { <<"planned", "in_progress">>, <<"in_progress", "done">>,
      <<"in_progress", "dropped">>, <<"in_progress", "planned">>,
      <<"planned", "dropped">> }

\* every record keeps its place and frame_id, changes status only along an
\* allowed edge, and not at all once DONE or DROPPED
StatusStepsAllowed ==
    \A k \in 1..Len(store) :
        /\ Len(store') >= Len(store)
        /\ store'[k].frame_id = store[k].frame_id
        /\ store[k].status \in {"done", "dropped"} => store'[k].status = store[k].status
        /\ store'[k].status # store[k].status =>
              <<store[k].status, store'[k].status>> \in AllowedEdges

\* C14: a frame's status changes only in an update_status call for that frame
\* and only along an allowed edge, to the status requested; a request along an
\* allowed edge succeeds; any other request answers failure and leaves the
\* store as it was; and a frame that is DONE or DROPPED never changes status.
C14_StatusStateMachine ==
    [][ /\ StatusStepsAllowed
        /\ \A k \in 1..Len(store) :
              store'[k].status # store[k].status =>
                    /\ call' # call
                    /\ call'[Len(call')].op = "update_status"
                    /\ call'[Len(call')].frame_id = store[k].frame_id
                    /\ call'[Len(call')].new = store'[k].status
        /\ (call' # call /\ call'[Len(call')].op = "update_status") =>
              LET c == call'[Len(call')]
              IN  IF <<c.from, c.new>> \in AllowedEdges
                  THEN c.ok /\ StatusOf(store', c.frame_id) = c.new
                  ELSE ~c.ok /\ store' = store
      ]_vars

\* a DONE frame was asked to become PLANNED again, was refused, and is DONE
C14_Witness ==
    /\ \E k \in 1..Len(call) :
          /\ call[k].op = "update_status"
          /\ call[k].from = "done" /\ call[k].new = "planned" /\ ~call[k].ok
    /\ \E k \in 1..Len(store) : store[k].status = "done"

\* the same holds of the store under the scheduler's own calls
C14_SchedulerSteps == [][StatusStepsAllowed]_vars

\* C15: list(status = PLANNED) holds exactly the PLANNED records of the store,
\* each once, by descending priority, and records of equal priority in the
\* order they were inserted.
C15_PriorityOrdering ==
    LET L == ps_list(store, "planned")
    IN  /\ { L[k] : k \in 1..Len(L) } = { store[k] : k \in { j \in 1..Len(store) : store[j].status = "planned" } }
        /\ Len(L) = Cardinality(PlannedFrames(store))
        /\ \A j, k \in 1..Len(L) :
              j < k =>
                /\ L[j].priority >= L[k].priority
                /\ L[j].priority = L[k].priority =>
                      FramePos(store, L[j].frame_id) < FramePos(store, L[k].frame_id)

\* three PLANNED frames inserted with priorities 5, 8, 5: the list differs
\* from the insertion order and holds a tie
C15_Witness ==
    /\ Len(store) = 3
    /\ \A k \in 1..3 : store[k].status = "planned"
    /\ store[1].priority = 5 /\ store[2].priority = 8 /\ store[3].priority = 5
    /\ ps_list(store, "planned") = <<store[2], store[1], store[3]>>

\* a planning cycle: the step from the top of the loop that plans
PlanStep == SchedStep /\ pc = "loop_top" /\ ~(limit # 0 /\ elapsed >= limit)

\* the number of steering frames at the head of the batch planned in this step
SteerFrames == IF applied' # applied THEN 1 ELSE 0

\* C16: a PLANNED frame leaves that status only when the scheduler marks it
\* IN_PROGRESS as the frame it is about to start (or DROPPED as a duplicate of
\* an executed frame); and every planning cycle offers the PLANNED frames
\* again: in the store's list order, right after the steering frame if there
\* is one, as many as fit into the batch of n - so the run never ends as
\* complete with a frame still PLANNED.
C16_NoPlannedWorkDropped ==
    [][ /\ \A k \in 1..Len(store) :
              (store[k].status = "planned" /\ store'[k].status # "planned") =>
                 \/ /\ pc = "mark"
                    /\ inv.frame_id = store[k].frame_id
                    /\ store'[k].status = "in_progress"
                 \/ /\ pc = "pre_frame"
                    /\ store[k].frame_id \in executed_frames
                    /\ store'[k].status = "dropped"
        /\ PlanStep =>
              LET pend == ps_list(store, "planned")
                  room == Max(1, PlanN) - SteerFrames
              IN  /\ \A k \in 1..Min(Len(pend), room) :
                        /\ Len(items') >= SteerFrames + k
                        /\ items'[SteerFrames + k].frame_id = pend[k].frame_id
                        /\ items'[SteerFrames + k].goal = pend[k].question
                  /\ pc' = "stopped" => pend = <<>>
      ]_vars

\* a frame created before one that is DONE by now was displaced by a steering
\* override, is still PLANNED, and is the first frame of a later batch
C16_Witness ==
    /\ pc = "pre_frame"
    /\ idx = 1
    /\ Len(store) >= 2
    /\ store[1].status = "planned"
    /\ store[2].status = "done"
    /\ items[1].frame_id = store[1].frame_id
    /\ last_applied_steer # None

C18_PlannerTopUp ==
    [][ PlanStep =>
          LET n == Max(1, PlanN)
              pend == ps_list(store, "planned")
              assembled == SteerFrames + Min(Len(pend), n)
          IN  /\ (call' # <<>>) <=> (assembled < n)
              /\ call' # <<>> =>
                    /\ call'[1].n = n - assembled
                    /\ Len(items') >= assembled
                    /\ Len(items') - assembled <= call'[1].n
              /\ call' = <<>> =>
                    /\ store' = store
                    /\ Len(items') = n
                    /\ \A k \in (SteerFrames + 1)..n :
                          items'[k].frame_id = pend[k - SteerFrames].frame_id
      ]_vars

\* the planner was asked for one frame and answered with two different new
\* goals: only the first one was proposed and added
C18_Witness ==
    /\ pc = "pre_frame"
    /\ call # <<>>
    /\ call[1].n = 1
    /\ Len(call[1].response) = 2
    /\ call[1].response[1].goal # call[1].response[2].goal
    /\ Len(items) = 2
    /\ items[2].goal = call[1].response[1].goal
    /\ ~HasFrame(store, FrameId(call[1].response[2].goal))

\* the frame_ids of a batch
BatchIds(b) == { b[k].frame_id : k \in 1..Len(b) } \ {None}

\* the candidate's frame exists in the store as DONE or IN_PROGRESS
Handled(st, d) ==
    /\ HasFrame(st, FrameId(d.goal))
    /\ StatusOf(st, FrameId(d.goal)) \in {"done", "in_progress"}

\* the entries of the batch planned in this step that come after the steering
\* frame and the PLANNED frames of the store
AddedByPlanner ==
    LET assembled == SteerFrames + Min(Len(ps_list(store, "planned")), Max(1, PlanN))
    IN  SubSeq(items', assembled + 1, Len(items'))

\* C19 as stated: when the planner answers with no more candidates than it was
\* asked for, the candidates whose frame exists as DONE or IN_PROGRESS are
\* not in the batch, and the batch is completed by all the others, one entry
\* for each, in the planner's order.
C19_DedupAgainstHistory ==
    [][ (PlanStep /\ call' # <<>> /\ Len(call'[1].response) <= call'[1].n) =>
          LET resp == call'[1].response
              others == SelectSeq(resp, LAMBDA d : ~Handled(store, d))
          IN  /\ \A j \in 1..Len(resp) :
                    Handled(store, resp[j]) => FrameId(resp[j].goal) \notin BatchIds(items')
              /\ Len(AddedByPlanner) = Len(others)
              /\ \A k \in 1..Len(others) : AddedByPlanner[k].goal = others[k].goal
      ]_vars

\* C19 amended: no frame of the batch is DONE or IN_PROGRESS, so a candidate
\* whose frame is is discarded; no frame_id is in the batch twice, so a
\* candidate whose frame is already in the batch is discarded too; the batch
\* holds at most n frames; every entry added is a candidate; and every
\* candidate that is not discarded for its status has its frame in the batch
\* unless the batch was full (n frames) before its turn came.
C19_Amended ==
    [][ (PlanStep /\ call' # <<>>) =>
          LET n == Max(1, PlanN)
              resp == call'[1].response
          IN  /\ \A k \in 1..Len(items') :
                    items'[k].frame_id # None =>
                       /\ HasFrame(store', items'[k].frame_id)
                       /\ StatusOf(store', items'[k].frame_id) = "planned"
              /\ \A j \in 1..Len(resp) :
                    Handled(store, resp[j]) => FrameId(resp[j].goal) \notin BatchIds(items')
              /\ \A j, k \in 1..Len(items') :
                    (j < k /\ items'[j].frame_id = items'[k].frame_id) =>
                        items'[j].frame_id = None
              /\ Len(items') <= n
              /\ \A k \in 1..Len(AddedByPlanner) :
                    \E j \in 1..Len(resp) :
                        /\ AddedByPlanner[k].goal = resp[j].goal
                        /\ AddedByPlanner[k].priority = resp[j].priority
                        /\ AddedByPlanner[k].frame_id = FrameId(resp[j].goal)
              /\ \A j \in 1..Len(resp) :
                    \/ Handled(store, resp[j])
                    \/ FrameId(resp[j].goal) \in BatchIds(items')
                    \/ Len(items') = n
      ]_vars

\* the planner re-proposed a frame that is DONE or IN_PROGRESS together with
\* a new goal: the batch holds the new goal and not the handled frame
C19_Witness ==
    /\ pc = "pre_frame"
    /\ call # <<>>
    /\ Len(call[1].response) = 2
    /\ \E j \in 1..2 :
          /\ Handled(store, call[1].response[j])
          /\ FrameId(call[1].response[j].goal) \notin BatchIds(items)
          /\ FrameId(call[1].response[3 - j].goal) \in BatchIds(items)

\* no entry has a higher priority than an entry before it
Descending(b) == \A j, k \in 1..Len(b) : j < k => b[j].priority >= b[k].priority

\* C20: the batch a planning cycle returns is in priority order - even when
\* the planner's own answer is - and the frames of a batch are taken one
\* after the other in the order of the batch.
C20_BatchPriorityOrder ==
    [][ /\ (PlanStep /\ (call' # <<>> => Descending(call'[1].response))) =>
              Descending(items')
        /\ (SchedStep /\ pc # "loop_top" /\ pc' = "pre_frame") =>
              (items' = items /\ idx' = idx + 1 /\ inv' = items[idx'])
      ]_vars

\* C21: a planning cycle that returns an empty batch stops the run in that
\* step with terminal status "completed" and no worker call; and once the run
\* has stopped, the same process plans nothing, updates no status, consumes
\* no directive and invokes no worker.
C21_Completion ==
    [][ /\ (PlanStep /\ items' = <<>>) =>
              /\ pc' = "stopped"
              /\ final_status' = "completed"
              /\ attempt' = 0
              /\ ~time_up'
        /\ (pc = "stopped" /\ restarts' = restarts) =>
              /\ pc' = "stopped"
              /\ final_status' = final_status
              /\ store' = store
              /\ cursor' = cursor
              /\ items' = items
              /\ attempt' = 0
      ]_vars

\* a run without a time limit has stopped as completed after finishing a frame
C21_Witness ==
    /\ pc = "stopped"
    /\ limit = 0
    /\ final_status = "completed"
    /\ items = <<>>
    /\ DoneFrames(store) # {}
    /\ completed # <<>>

\* investigate() raised in this step (anything but the time-limit signal)
WorkerRaised == Len(trace') > Len(trace) /\ trace'[Len(trace) + 1] = "raise"

\* C22: when the worker raises, the run goes on - with a retry, a further
\* frame or a further planning cycle - and does not end as failed.
C22_FailureContainment ==
    [][ WorkerRaised => (pc' # "stopped" /\ final_status' # "failed") ]_vars

\* C23: a run that has reported "failed" leaves no frame IN_PROGRESS.
C23_NoInProgressAfterFailure ==
    final_status = "failed" => InProgressFrames(store) = {}

\* a planning cycle in which list or some propose failed
FaultyPlanStep == PlanStep /\ call' # <<>> /\ "list_ok" \in DOMAIN call'[1]

\* the candidates whose propose failed are in the batch without a frame_id,
\* unless the batch was full before their turn came
FailedCandidatesKept ==
    LET c == call'[1]
    IN  \A j \in c.failing :
          \/ \E k \in 1..Len(items') :
                items'[k] = Item(c.response[j].goal, c.response[j].priority, None)
          \/ Len(items') >= Max(1, PlanN)

\* C24: a plan store that cannot be opened, or whose list, propose or
\* update_status call fails, never stops the run: initialize ends at the loop,
\* a planning cycle with failed calls still yields its batch with the
\* candidates whose propose failed (without a frame_id), a frame whose
\* IN_PROGRESS mark failed or that has no frame_id still goes to the worker,
\* a failed DONE mark moves on to the next frame, and the run never fails.
C24_StoreFailureDegrades ==
    [][ SchedStep =>
          /\ final_status' # "failed"
          /\ pc = "boot" => pc' = "loop_top"
          /\ FaultyPlanStep =>
                /\ pc' \in {"pre_frame", "stopped"}
                /\ FailedCandidatesKept
                /\ pc' = "stopped" => items' = <<>> \/ call'[1].failing = {}
          /\ pc = "mark" => pc' = "invoke"
          /\ pc = "invoke" => pc' = "in_worker" /\ WorkerInvoked
          /\ pc = "mark_done" => pc' \in {"pre_frame", "loop_top"} ]_vars

\* the worker runs a planner candidate that never reached the store
C24_Witness ==
    /\ pc = "in_worker"
    /\ inv.frame_id = None
    /\ inv.priority # 10
    /\ store = <<>>
    /\ final_status = "none"

\* the orders in which n calls can be charged one after another
Perms(n) == { f \in [1..n -> 1..n] : \A i, j \in 1..n : f[i] = f[j] => i = j }

UsageKey(u) == model_key(u.provider, u.model)

\* tokens charged to the model of the i-th call of order p before that call
RECURSIVE ChargedBefore(_, _, _, _, _)
ChargedBefore(h, p, i, j, field) ==
    IF j >= i THEN 0
    ELSE (IF UsageKey(h[p[j]]) = UsageKey(h[p[i]]) THEN h[p[j]][field] ELSE 0)
         + ChargedBefore(h, p, i, j + 1, field)

\* the costs recorded in h are those of charging its calls in the order p
ChargedInOrder(h, p) ==
    \A i \in 1..Len(h) :
      LET u == h[p[i]]
      IN  <<u.input_cost, u.output_cost, u.total_cost>> =
            calculate_cost(pricing_cache, UsageKey(u), u.input_tokens, u.output_tokens,
                           ChargedBefore(h, p, i, 1, "input_tokens"),
                           ChargedBefore(h, p, i, 1, "output_tokens"))

\* C25: the costs recorded for concurrent calls (no reset in between) are
\* those obtained by charging the calls one after another in some order.
C25_AtomicTrack ==
    resets = 0 => \E p \in Perms(Len(usage_history)) : ChargedInOrder(usage_history, p)

\* the lowest threshold above th, or `top` when th is the highest
NextThreshold(tiers, th, top) ==
    LET above == { tiers[k].threshold : k \in 1..Len(tiers) } \cap (th + 1 .. top)
    IN  IF above = {} THEN top ELSE CHOOSE x \in above : \A y \in above : x <= y

\* how many of the positions from..from+tokens-1 fall in the tier starting at th
TokensInTier(tiers, th, from, tokens) ==
    Max(0, Min(from + tokens, NextThreshold(tiers, th, from + tokens)) - Max(from, th))

\* every token charged at the rate of the tier its position falls in
RECURSIVE PerTokenCost(_, _, _, _, _, _)
PerTokenCost(tiers, k, unit, cost_type, from, tokens) ==
    IF k > Len(tiers) THEN 0
    ELSE Cost(TokensInTier(tiers, tiers[k].threshold, from, tokens), unit, tiers[k][cost_type])
         + PerTokenCost(tiers, k + 1, unit, cost_type, from, tokens)

\* thread t has computed the cost of its call under tiered pricing
TieredCosted(t) ==
    /\ threads[t].pc = "costed"
    /\ ThreadKey(t) \in DOMAIN pricing_cache
    /\ pricing_cache[ThreadKey(t)].type = "tiered"

\* a call of 500 input tokens after 800, tiers 0 and 1000 at 10 and 5 per 1000
StraddlingCall(t) ==
    /\ TieredCosted(t)
    /\ pricing_cache[ThreadKey(t)].unit = 1000
    /\ Len(pricing_cache[ThreadKey(t)].tiers) = 2
    /\ threads[t].cumulative[1] = 800
    /\ threads[t].input_tokens = 500

\* C26: under tiered pricing each token of a call is charged at the rate of
\* the tier its cumulative position falls in (input and output tokens each on
\* their own counter); the call of 500 tokens after 800 is split into 200
\* tokens at 10 and 300 at 5 per 1000 and costs 3.50.
C26_TieredCost ==
    \A t \in Threads :
      /\ TieredCosted(t) =>
            LET pr == pricing_cache[ThreadKey(t)]
                th == threads[t]
            IN  /\ th.cost[1] = PerTokenCost(pr.tiers, 1, pr.unit, "input_cost",
                                             th.cumulative[1], th.input_tokens)
                /\ th.cost[2] = PerTokenCost(pr.tiers, 1, pr.unit, "output_cost",
                                             th.cumulative[2], th.output_tokens)
                /\ th.cost[3] = th.cost[1] + th.cost[2]
      /\ StraddlingCall(t) =>
            LET pr == pricing_cache[ThreadKey(t)]
            IN  /\ TokensInTier(pr.tiers, 0, 800, 500) = 200
                /\ TokensInTier(pr.tiers, 1000, 800, 500) = 300
                /\ threads[t].cost[1] = Cost(200, 1000, 10) + Cost(300, 1000, 5)
                /\ 10 * threads[t].cost[1] = 35 * MicroPerDollar

\* the call of 500 input tokens after 800 has been charged
C26_Witness == \E t \in Threads : StraddlingCall(t)

\* no track_usage or reset is part-way through its updates
Quiescent == lock = 0 \/ threads[lock].pc = "deadlocked"

\* the history records of one model key
RecordsOf(key) == SelectSeq(usage_history, LAMBDA u : UsageKey(u) = key)

RECURSIVE SumOverKeys(_, _)
SumOverKeys(keys, field) ==
    IF keys = {} THEN 0
    ELSE LET k == CHOOSE x \in keys : TRUE
         IN  usage_by_model[k][field] + SumOverKeys(keys \ {k}, field)

AggregateFields ==
    {"input_tokens", "output_tokens", "total_tokens", "input_cost", "output_cost",
     "total_cost"}

\* C27: whenever no track_usage or reset is under way, every model key's
\* aggregates (call_count, token sums, cost sums) equal the count and the sums
\* of that key's history records, its cumulative counters equal the same
\* token sums, a key without records has neither aggregates nor counters
\* (so all is empty after reset), and the totals of get_summary are the sums
\* over the whole history.
C27_AccountantConsistent ==
    Quiescent =>
      /\ DOMAIN usage_by_model \subseteq RuntimeModels
      /\ DOMAIN cumulative_tokens = DOMAIN usage_by_model
      /\ \A key \in RuntimeModels :
            LET recs == RecordsOf(key)
            IN  IF recs = <<>>
                THEN key \notin DOMAIN usage_by_model
                ELSE /\ key \in DOMAIN usage_by_model
                     /\ usage_by_model[key].call_count = Len(recs)
                     /\ \A f \in AggregateFields :
                           usage_by_model[key][f] = SumField(recs, f)
                     /\ cumulative_tokens[key].input_tokens = SumField(recs, "input_tokens")
                     /\ cumulative_tokens[key].output_tokens = SumField(recs, "output_tokens")
      /\ LET sm == get_summary(usage_history, usage_by_model)
         IN  /\ sm.total_usage.call_count = Len(usage_history)
             /\ sm.total_usage.call_count = SumOverKeys(DOMAIN usage_by_model, "call_count")
             /\ \A f \in AggregateFields :
                   /\ sm.total_usage[f] = SumField(usage_history, f)
                   /\ sm.total_usage[f] = SumOverKeys(DOMAIN usage_by_model, f)
             /\ sm.history = usage_history
             /\ usage_history = <<>> =>
                   /\ sm.by_model = NoModels
                   /\ \A f \in AggregateFields : sm.total_usage[f] = 0

\* after a reset, two calls have been charged to one model
C27_Witness ==
    /\ lock = 0
    /\ resets = 1
    /\ Len(usage_history) = 2
    /\ UsageKey(usage_history[1]) = UsageKey(usage_history[2])
    /\ usage_history[2].total_cost > 0

\* the reader has just been asked for the latest urgent directive
LatestCall == call # <<>> /\ call[1].op = "latest_urgent"

\* line i of the log is a directive newer than the cursor with an actionable text
Actionable(i, last_ts) ==
    /\ ~IsRawLine(log[i])
    /\ log[i].text # None
    /\ log[i].ts > last_ts
    /\ IsUrgent(log[i].text)

\* line i is among the last SteerReadLimit lines that yield an entry
InReadWindow(i) ==
    Cardinality({ j \in (i + 1)..Len(log) : KeptLine(log[j]) }) < SteerReadLimit

\* the answer is the last of the lines in `hits`, or none when there is none
AnswersLastOf(hits) ==
    IF hits = {}
    THEN ~call[1].result.found
    ELSE LET i == CHOOSE x \in hits : \A y \in hits : y <= x
         IN  call[1].result = [found |-> TRUE, ts |-> log[i].ts, text |-> log[i].text]

ReadCall == call # <<>> /\ call[1].op = "read_recent"

\* the directives of the log: the lines that parse and carry a text, in log order
Directives ==
    LET good == SelectSeq(log, LAMBDA ln : ~IsRawLine(ln) /\ ln.text # None)
    IN  [i \in 1..Len(good) |-> [ts |-> good[i].ts, text |-> good[i].text]]

\* C29: _read_steering_entries(limit) returns the well-formed directives of
\* the log in log order, newest last, at most `limit` of them (the last
\* ones); a malformed or half-written line does not appear in the result.
C29_ReadRecent ==
    ReadCall =>
      /\ Len(call[1].result) <= call[1].limit
      /\ call[1].result = LastN(Directives, call[1].limit)

\* the pre-frame step of the execution loop
PreFrameStep == SchedStep /\ pc = "pre_frame"

\* directive u (text t) overrides the frame at hand: a priority-10 frame takes
\* its place, the batch gets no new entry, completed frames and the store are
\* untouched, the directive is consumed and was never applied before
OverrideApplied(u, t) ==
    /\ applied' = Append(applied, AppliedEntry(u, "override"))
    /\ \A k \in 1..Len(applied) : applied[k].pos # u
    /\ cursor' = log[u].ts
    /\ cursor' > cursor
    /\ last_applied_steer' = t
    /\ pc' \in {"mark", "loop_top"}
    /\ pc' = "mark" => inv' = Item(t, 10, None) /\ items' = items /\ idx' = idx
    /\ Len(items') <= Len(items)
    /\ completed' = completed
    /\ store' = store

\* the frame at hand is not overridden and nothing is consumed
OverrideNotApplied ==
    /\ applied' = applied
    /\ cursor' = cursor
    /\ last_applied_steer' = last_applied_steer
    /\ pc' = "mark" => inv' = items[idx]

Classified == call # <<>> /\ call[1].op = "classify"

\* the lower-cased text contains one of the global-scope markers of the
\* urgent classifier
HasGlobalMarker(text) == \E m \in globals : Contains(Lower(text), m)

\* the word "across" with a word after it
HasAcross(text) == \E i \in 1..(Len(text) - 1) : LowerTok(text[i]) = "across"

\* C31 as stated: _is_global_steer is true exactly when the lower-cased text
\* contains one of the global-scope markers of the urgent classifier, so
\* every text it accepts is classified urgent.
C31_IsGlobal ==
    Classified =>
      /\ call[1].is_global <=> HasGlobalMarker(call[1].text)
      /\ call[1].is_global => call[1].urgent

\* C31 amended: _is_global_steer is true exactly when the text contains one
\* of those markers or the word "across" followed by another word; a text
\* with a marker is urgent, one accepted for "across" alone is urgent only
\* when it also holds a directive verb.
C31_Amended ==
    Classified =>
      LET text == call[1].text
      IN  /\ call[1].is_global <=> (HasGlobalMarker(text) \/ HasAcross(text))
          /\ HasGlobalMarker(text) => call[1].urgent
          /\ (call[1].is_global /\ ~HasGlobalMarker(text)) =>
                (call[1].urgent <=> \E k \in verbs : Contains(Lower(text), k))

\* a capitalised marker is recognised by both classifiers
C31_Witness ==
    /\ Classified
    /\ call[1].text = <<"check", "Whole", "codebase">>
    /\ call[1].is_global
    /\ call[1].urgent

\* a usage has been priced
Priced == call # <<>> /\ call[1].op = "tiered_cost"

\* C32: the tiered cost loop ends after at most one step per tier and leaves
\* no token uncharged: what the tiers before the last do not take, the last
\* tier takes at its own rate.
C32_TieredCostTerminates ==
    Priced =>
      LET c == call[1]
          n == Len(c.tiers)
          rest == TokensInTier(c.tiers, c.tiers[n].threshold, c.c, c.a + c.b)
      IN  /\ c.whole.tokens_remaining = 0
          /\ c.whole.current_tier_idx - c.start <= n
          /\ c.whole.current_tier_idx <= n + 1
          /\ (c.a + c.b > 0 /\ c.c >= c.tiers[n].threshold) =>
                /\ c.start = n
                /\ c.whole.total_cost = Cost(c.a + c.b, 1000, c.tiers[n][c.cost_type])

\* a call that starts in the first of three tiers ends in the last
C32_Witness ==
    /\ Priced
    /\ Len(call[1].tiers) = 3
    /\ call[1].start = 1
    /\ call[1].whole.current_tier_idx = 4
    /\ call[1].whole.tokens_remaining = 0
    /\ call[1].a + call[1].b > 1000

\* C33: with an output file set, track_usage and reset return: no thread
\* waits, inside its own critical section, for the lock it holds.
C33_NoSelfDeadlock ==
    \A t \in Threads : ~(threads[t].pc = "deadlocked" /\ lock = t /\ output_file)

\* the frame with this goal is on record in the Plan Store, still to be run
RecordedForResume(text) ==
    \E k \in 1..Len(store) : /\ store[k].question = text
                             /\ store[k].status \in {"planned", "in_progress"}

\* C34: no steering directive is consumed without being scheduled: when a run
\* has ended, every directive it consumed (batch frame, pre-frame override or
\* abort trigger) has had a frame with its text handed to the worker since,
\* or that frame is recorded in the Plan Store for the resumed run.
C34_ConsumedIsScheduled ==
    (pc = "stopped" /\ restarts = 0) =>
        \A k \in 1..Len(applied) :
            applied[k].handed \/ RecordedForResume(log[applied[k].pos].text)

\* C35: at every point of a run (from initialize() on) at most one frame has
\* status in_progress in the Plan Store, across frame executions, steering
\* aborts and re-planning cycles.
C35_AtMostOneInProgress ==
    pc \notin {"boot", "harness"} => Cardinality(InProgressFrames(store)) <= 1

\* C36: a frame left in_progress by a steering abort (a deadline cancellation
\* ends the run) is in no later batch of the same run, also when the planner
\* proposes its goal again; an in_progress frame becomes planned again only
\* by initialize().
C36_InProgressNotRebatched ==
    [][ /\ PlanStep =>
              \A k \in 1..Len(items') : items'[k].frame_id \notin InProgressFrames(store)
        /\ \A f \in InProgressFrames(store) :
              f \in PlannedFrames(store') => (pc = "boot" /\ pc' = "loop_top")
      ]_vars

\* after an abort the planner proposes the aborted frame's goal again, and
\* the batch is made of other frames
C36_Witness ==
    /\ pc = "pre_frame" /\ idx = 1 /\ call # <<>>
    /\ restarts = 0
    /\ last_replan_steer # None
    /\ \E j \in 1..Len(call[1].response) :
          FrameId(call[1].response[j].goal) \in InProgressFrames(store)
    /\ \A k \in 1..Len(items) : items[k].frame_id \notin InProgressFrames(store)

\* the frame_ids of the batch, entry by entry, without the null ones
BatchFrameIds(its) == SelectSeq([k \in 1..Len(its) |-> its[k].frame_id], LAMBDA f : f # None)

\* C37: in a batch assembled by plan_batch no two entries carry the same
\* non-null frame_id: the batch has as many distinct frame_ids as it has
\* entries with a frame_id.
C37_DistinctFrameIds ==
    LET ids == BatchFrameIds(items)
    IN  Cardinality({ ids[k] : k \in 1..Len(ids) }) = Len(ids)

\* a batch just assembled from a planner answer that names one goal twice, or
\* names the goal of a PLANNED frame the batch took from the store
C37_Witness ==
    /\ pc = "pre_frame" /\ idx = 1 /\ call # <<>>
    /\ LET resp == call[1].response
           ids == BatchFrameIds(items)
       IN  /\ Len(resp) = 2
           /\ FrameId(resp[1].goal) = FrameId(resp[2].goal)
           /\ Len(ids) = 2
           /\ ids[2] = FrameId(resp[1].goal)

\* C38: plan_batch(n) never returns more than n frames, whether the batch is
\* cut after the steering frame and the PLANNED frames or topped up from a
\* planner answer of any length.
C38_BatchAtMostN ==
    [][ PlanStep => Len(items') <= Max(1, PlanN) ]_vars

\* a batch of n frames headed by the steering frame, assembled while the store
\* holds n PLANNED frames
C38_Witness ==
    /\ pc = "pre_frame" /\ idx = 1
    /\ applied # <<>> /\ applied[Len(applied)].how = "batch"
    /\ items[1] = Item(log[applied[Len(applied)].pos].text, 10, None)
    /\ Len(items) = Max(1, PlanN)
    /\ Cardinality(PlannedFrames(store)) >= Max(1, PlanN)

\* the worker calls made for the frame at hand
Invocations == Cardinality({ k \in 1..Len(trace) : trace[k] = "invoke" })

====
